---- MODULE Spec2Model ----
(***************************************************************************)
(* The /{symbol}/all endpoint of the stock screener (get_all_stock_data):  *)
(* a concurrent batch of provider fetches, the join, the merge of the      *)
(* primary (FMP) and secondary (Yahoo) results, the derived computations   *)
(* and the NaN sanitisation of the response.                               *)
(***************************************************************************)
EXTENDS Integers, Sequences, FiniteSets, TLC

(***************************************************************************)
(* Python values.  Every value is a node [t, s, n, kids]:                  *)
(*   t = "none"               None                                         *)
(*   t = "exc"                an Exception instance                        *)
(*   t = "int"                an int, n its value                          *)
(*   t = "float", s = "fin"   a finite float, n its value in hundredths    *)
(*   t = "float", s = "nan" / "inf" / "-inf"   a non-finite float          *)
(*   t = "str", s             a string                                     *)
(*   t = "list", kids         a list                                       *)
(*   t = "dict", kids         a dict, kids its items in insertion order    *)
(*   t = "item", s, kids      a dict item: key s, value kids[1]            *)
(*   t = "frame", n, kids     a pandas DataFrame of n price bars, the      *)
(*                            oldest first                                 *)
(*   t = "bar", kids          a price bar: high, low, close                *)
(***************************************************************************)
Nd(t, s, n, kids) == [t |-> t, s |-> s, n |-> n, kids |-> kids]

PyNone == Nd("none", "", 0, <<>>)

PyExc == Nd("exc", "", 0, <<>>)

PyInt(i) == Nd("int", "", i, <<>>)

PyFloat(h) == Nd("float", "fin", h, <<>>)

PyNaN == Nd("float", "nan", 0, <<>>)

PyInf == Nd("float", "inf", 0, <<>>)

PyNegInf == Nd("float", "-inf", 0, <<>>)

PyStr(s) == Nd("str", s, 0, <<>>)

PyBool(b) == Nd("bool", "", IF b THEN 1 ELSE 0, <<>>)

PyList(items) == Nd("list", "", 0, items)

KV(k, v) == Nd("item", k, 0, <<v>>)

PyDict(items) == Nd("dict", "", 0, items)

\* a row of a price history
Bar(high, low, close) ==
    Nd("bar", "", 0, <<PyFloat(high), PyFloat(low), PyFloat(close)>>)

High(bar) == bar.kids[1]

Low(bar) == bar.kids[2]

Close(bar) == bar.kids[3]

\* a DataFrame of the given rows
Frame(rows) == Nd("frame", "", Len(rows), rows)

\* a bar of a quiet market
QuietBar == Bar(11000, 10500, 10800)

\* a DataFrame of `bars` price bars of a quiet market
PyFrame(bars) == Nd("frame", "", bars, [i \in 1..bars |-> QuietBar])

EmptyList == PyList(<<>>)

EmptyDict == PyDict(<<>>)

IsNone(v) == v.t = "none"

IsExc(v) == v.t = "exc"

IsList(v) == v.t = "list"

IsDict(v) == v.t = "dict"

IsNonFinite(v) == v.t = "float" /\ v.s # "fin"

\* Python truthiness (bool(v)).
Truthy(v) ==
    CASE v.t = "none" -> FALSE
      [] v.t = "int" -> v.n # 0
      [] v.t = "float" -> ~(v.s = "fin" /\ v.n = 0)
      [] v.t = "str" -> v.s # ""
      [] v.t = "bool" -> v.n # 0
      [] v.t \in {"list", "dict"} -> v.kids # <<>>
      [] OTHER -> TRUE

\* a or b
PyOr(a, b) == IF Truthy(a) THEN a ELSE b

Keys(d) == {d.kids[i].s : i \in 1..Len(d.kids)}

HasKey(d, k) == \E i \in 1..Len(d.kids) : d.kids[i].s = k

\* d.get(k, default)
DictGet(d, k, default) ==
    IF HasKey(d, k)
    THEN d.kids[CHOOSE i \in 1..Len(d.kids) : d.kids[i].s = k].kids[1]
    ELSE default

\* d[k] = v : replaces the value in place, or appends a new item
DictSet(d, k, v) ==
    IF HasKey(d, k)
    THEN PyDict([i \in 1..Len(d.kids) |->
                    IF d.kids[i].s = k THEN KV(k, v) ELSE d.kids[i]])
    ELSE PyDict(Append(d.kids, KV(k, v)))

RECURSIVE DictUpdate(_, _)
\* {**a, **b} : a's items, overridden and extended by b's, in order
DictUpdate(a, b) ==
    IF b.kids = <<>> THEN a
    ELSE DictUpdate(DictSet(a, Head(b.kids).s, Head(b.kids).kids[1]),
                    PyDict(Tail(b.kids)))


(***************************************************************************)
(* The symbol of the request: a stem and a market suffix ("" when the     *)
(* symbol has no dot).                                                     *)
(***************************************************************************)
Sym(stem, suffix) == [stem |-> stem, suffix |-> suffix]

Symbols == {Sym("AAPL", ""), Sym("SBIN", ".BO")}

SymbolText(sym) == sym.stem \o sym.suffix

\* is_international = "." in symbol
IsInternational(sym) == sym.suffix # ""

TRADINGVIEW_OVERRIDE_MAP ==
    [s \in {"TATAPOWER.NS", "RELIANCE.NS", "BAJFINANCE.NS", "HDFCBANK.NS",
            "SBIN.NS", "INFY.NS", "TCS.NS"} |->
        CASE s = "TATAPOWER.NS" -> "NSE:TATAPOWER"
          [] s = "RELIANCE.NS" -> "NSE:RELIANCE"
          [] s = "BAJFINANCE.NS" -> "NSE:BAJFINANCE"
          [] s = "HDFCBANK.NS" -> "NSE:HDFCBANK"
          [] s = "SBIN.NS" -> "NSE:SBIN"
          [] s = "INFY.NS" -> "NSE:INFY"
          [] OTHER -> "NSE:TCS"]

TvSymbol(sym) ==
    IF SymbolText(sym) \in DOMAIN TRADINGVIEW_OVERRIDE_MAP
    THEN TRADINGVIEW_OVERRIDE_MAP[SymbolText(sym)]
    ELSE IF sym.suffix = ".NS" THEN sym.stem
    ELSE IF sym.suffix = ".BO" THEN "BSE:" \o sym.stem
    ELSE SymbolText(sym)

(***************************************************************************)
(* The fetch tasks of the batch, in the order of the tasks dict.           *)
(***************************************************************************)
BaseTasks ==
    <<"fmp_profile", "fmp_quote", "fmp_key_metrics",
      "fmp_income_5y", "fmp_balance_5y", "fmp_cash_flow_5y",
      "fmp_quarterly_income", "fmp_quarterly_balance", "fmp_quarterly_cash_flow",
      "shareholding", "news", "yf_recommendations", "yf_price_target", "hist_df">>

BackupTasks ==
    <<"yf_profile", "yf_quote", "yf_key_fundamentals", "yf_shareholding",
      "yf_historical_financials", "yf_quarterly_financials">>

SafeFallbackTasks == <<"yf_key_fundamentals", "yf_shareholding">>

\* the tasks dict without the update of the international branch
BatchTasks_never_eager(intl) == BaseTasks \o SafeFallbackTasks

\* the tasks dict with the international update on every symbol
BatchTasks_always_eager(intl) == BaseTasks \o BackupTasks

\* tasks = {...}; tasks.update(...) when international, two keys otherwise
BatchTasks(intl) ==
    BaseTasks \o (IF intl THEN BackupTasks ELSE SafeFallbackTasks)

Range(seq) == {seq[i] : i \in 1..Len(seq)}

\* every fetch the handler can issue, each named by its task key
Fetches == Range(BaseTasks) \cup Range(BackupTasks)

FmpStatementTasks ==
    {"fmp_income_5y", "fmp_balance_5y", "fmp_cash_flow_5y",
     "fmp_quarterly_income", "fmp_quarterly_balance", "fmp_quarterly_cash_flow"}

\* the tasks served by fmp_service and news_service
PrimaryTasks ==
    {"fmp_profile", "fmp_quote", "fmp_key_metrics", "shareholding", "news"}
        \cup FmpStatementTasks

\* the tasks served by yahoo_service
SecondaryTasks == Fetches \ PrimaryTasks


(***************************************************************************)
(* What the providers can answer.  The payloads keep the fields the        *)
(* handler reads and carry non-finite floats, as provider data does.       *)
(***************************************************************************)
\* a financial-statement row
Row(date, netIncome, revenue) ==
    PyDict(<<KV("date", PyStr(date)), KV("netIncome", netIncome),
             KV("revenue", revenue)>>)

NullRow(date) == Row(date, PyNone, PyNone)

FmpProfile ==
    PyDict(<<KV("companyName", PyStr("FMP name")), KV("currency", PyStr("USD")),
             KV("mktCap", PyInt(500)), KV("beta", PyNaN)>>)

FmpQuote ==
    PyDict(<<KV("price", PyFloat(10800)), KV("yearHigh", PyFloat(11500)),
             KV("volume", PyInt(900)), KV("avgVolume", PyInt(500)),
             KV("sharesOutstanding", PyInt(40))>>)

\* a quote that carries no price
FmpQuoteNoPrice ==
    PyDict(<<KV("price", PyNone), KV("yearHigh", PyFloat(11500))>>)

\* get_key_metrics(symbol, "annual", 1): a list of periods
FmpKeyMetrics ==
    PyList(<<PyDict(<<KV("peRatioTTM", PyFloat(1200)), KV("marketCap", PyNone),
                      KV("returnOnCapitalEmployedTTM", PyFloat(15))>>),
             PyDict(<<KV("peRatioTTM", PyFloat(9900))>>)>>)

FmpStatement(task) ==
    PyList(<<Row(task, PyFloat(1000), PyInf), Row(task, PyNone, PyFloat(700))>>)

\* rows whose first three periods carry neither net income nor revenue
FmpIncomeInvalid ==
    PyList(<<NullRow("y1"), NullRow("y2"), NullRow("y3"),
             Row("y4", PyFloat(10), PyFloat(20))>>)

FmpShareholding ==
    PyList(<<PyDict(<<KV("holder", PyStr("fund a")), KV("shares", PyInt(100))>>),
             PyDict(<<KV("holder", PyStr("fund b")), KV("shares", PyInt(50))>>)>>)

NewsItems == PyList(<<PyDict(<<KV("title", PyStr("headline"))>>)>>)

\* yahoo_service.get_company_profile
YfProfile ==
    PyDict(<<KV("companyName", PyStr("Yahoo name")), KV("currency", PyStr("INR")),
             KV("mktCap", PyNone), KV("beta", PyInf),
             KV("fullTimeEmployees", PyInt(7))>>)

(***************************************************************************)
(* Numbers: ints and floats compared in hundredths; a comparison with NaN  *)
(* is false, the infinities lie beyond every finite value.                 *)
(***************************************************************************)
IsNumber(v) == v.t \in {"int", "float"}

Hundredths(v) ==
    CASE v.t = "int" -> v.n * 100
      [] v.s = "inf" -> 1000000000
      [] v.s = "-inf" -> -1000000000
      [] OTHER -> v.n

IsNaN(v) == v.t = "float" /\ v.s = "nan"

\* a > k/100, for a Python number a
GtC(a, k) == IsNumber(a) /\ ~IsNaN(a) /\ Hundredths(a) > k

LtC(a, k) == IsNumber(a) /\ ~IsNaN(a) /\ Hundredths(a) < k

LeC(a, k) == IsNumber(a) /\ ~IsNaN(a) /\ Hundredths(a) <= k

\* a > b
Gt(a, b) == IsNumber(b) /\ ~IsNaN(b) /\ GtC(a, Hundredths(b))

\* ticker.info of the provider, as far as get_quote reads it
Info(current_price, regular_market_price, previous_close) ==
    PyDict(<<KV("currentPrice", current_price),
             KV("regularMarketPrice", regular_market_price),
             KV("previousClose", previous_close),
             KV("fiftyTwoWeekHigh", PyFloat(11500)),
             KV("volume", PyInt(800)), KV("averageVolume", PyInt(500))>>)

\* lines 44-49: change and percent
quote_change(price, prev_close) ==
    IF Truthy(price) /\ Truthy(prev_close)
    THEN <<PyFloat(Hundredths(price) - Hundredths(prev_close)),
           PyFloat(((Hundredths(price) - Hundredths(prev_close)) * 10000)
                   \div Hundredths(prev_close))>>
    ELSE <<PyFloat(0), PyFloat(0)>>

\* yahoo_service.get_quote on the info the provider returns; an exception
\* of the provider gives {}.  dayLow, dayHigh, yearLow, open and timestamp
\* are left out.
get_quote(info) ==
    IF IsExc(info) THEN EmptyDict
    ELSE
      LET price == PyOr(PyOr(DictGet(info, "currentPrice", PyNone),
                             DictGet(info, "regularMarketPrice", PyNone)),
                        DictGet(info, "previousClose", PyNone))
          prev_close == DictGet(info, "previousClose", PyNone)
      IN PyDict(<<
          KV("price", price),
          KV("change", quote_change(price, prev_close)[1]),
          KV("changesPercentage", quote_change(price, prev_close)[2]),
          KV("yearHigh", DictGet(info, "fiftyTwoWeekHigh", PyNone)),
          KV("volume", PyOr(DictGet(info, "volume", PyNone),
                            DictGet(info, "regularMarketVolume", PyNone))),
          KV("avgVolume", DictGet(info, "averageVolume", PyNone)),
          KV("previousClose", prev_close)>>)

\* the quote of a traded symbol
YfQuote == get_quote(Info(PyFloat(10700), PyNone, PyFloat(10600)))

\* get_quote when the provider's info carries no field
YfQuoteNoPrice == get_quote(EmptyDict)

\* yahoo_service.get_key_fundamentals
YfKeyFundamentals ==
    PyDict(<<KV("peRatioTTM", PyFloat(3000)),
             KV("returnOnCapitalEmployedTTM", PyNaN),
             KV("marketCap", PyInt(900)), KV("epsTTM", PyFloat(250)),
             KV("sharesOutstanding", PyInt(50)), KV("beta", PyFloat(110))>>)

\* yahoo_service.get_shareholding_summary
YfShareholding ==
    PyDict(<<KV("promoter", PyFloat(1000)), KV("fii", PyFloat(3000)),
             KV("dii", PyFloat(2000)), KV("public", PyFloat(4000))>>)

\* _parse_yfinance_financials: every field is a float, 0.0 when not found
YfRows(tag) == PyList(<<Row(tag, PyFloat(900), PyFloat(0))>>)

\* yahoo_service.get_historical_financials / get_quarterly_financials
YfFinancials(tag) ==
    PyDict(<<KV("income", YfRows(tag \o " income")),
             KV("balance", YfRows(tag \o " balance")),
             KV("cash_flow", YfRows(tag \o " cash_flow"))>>)

YfFinancialsEmpty ==
    PyDict(<<KV("income", EmptyList), KV("balance", EmptyList),
             KV("cash_flow", EmptyList)>>)

\* yahoo_service.get_analyst_recommendations
YfRecommendations ==
    PyList(<<PyDict(<<KV("ratingStrongBuy", PyInt(4)), KV("ratingBuy", PyInt(3)),
                      KV("ratingHold", PyInt(2)), KV("ratingSell", PyInt(1)),
                      KV("ratingStrongSell", PyInt(0))>>)>>)

\* yahoo_service.get_price_target_data
YfPriceTarget ==
    PyDict(<<KV("targetHigh", PyFloat(13000)), KV("targetLow", PyNone),
             KV("targetConsensus", PyNaN)>>)

\* the bar counts of the price histories the model draws from
LongHistory == 260

ShortHistory == 20

\* the history of a year of trading, and one too short for the indicators
LongFrame == PyFrame(LongHistory)

ShortFrame == PyFrame(ShortHistory)

\* the answer a fetch gives when it has data
Valid(task) ==
    CASE task = "fmp_profile" -> FmpProfile
      [] task = "fmp_quote" -> FmpQuote
      [] task = "fmp_key_metrics" -> FmpKeyMetrics
      [] task \in FmpStatementTasks -> FmpStatement(task)
      [] task = "shareholding" -> FmpShareholding
      [] task = "news" -> NewsItems
      [] task = "yf_recommendations" -> YfRecommendations
      [] task = "yf_price_target" -> YfPriceTarget
      [] task = "hist_df" -> LongFrame
      [] task = "yf_profile" -> YfProfile
      [] task = "yf_quote" -> YfQuote
      [] task = "yf_key_fundamentals" -> YfKeyFundamentals
      [] task = "yf_shareholding" -> YfShareholding
      [] task = "yf_historical_financials" -> YfFinancials("annual")
      [] OTHER -> YfFinancials("quarterly")

\* the empty answer of a fetch: the value its except branch returns (yahoo),
\* the empty container of its category (fmp, news)
Empty(task) ==
    CASE task \in {"fmp_profile", "fmp_quote", "yf_profile", "yf_quote",
                   "yf_key_fundamentals", "yf_shareholding", "yf_price_target"}
            -> EmptyDict
      [] task = "hist_df" -> PyNone
      [] task \in {"yf_historical_financials", "yf_quarterly_financials"}
            -> YfFinancialsEmpty
      [] OTHER -> EmptyList

\* The result of a fetch is named by its kind: "raise" (the call raises),
\* "none", "empty", "valid", "noprice" (a quote without a price), "invalid"
\* (statements without figures in the first periods), "short" (a short
\* price history); "unasked" stands for a call that was not made.
Value(task, kind) ==
    CASE kind = "raise" -> PyExc
      [] kind = "empty" -> Empty(task)
      [] kind = "valid" -> Valid(task)
      [] kind = "noprice" ->
            (IF task = "fmp_quote" THEN FmpQuoteNoPrice ELSE YfQuoteNoPrice)
      [] kind = "invalid" -> FmpIncomeInvalid
      [] kind = "short" -> ShortFrame
      [] OTHER -> PyNone

\* the answers of a yahoo_service fetch: each catches every exception
YahooResults(task) ==
    {"empty", "valid"}
        \cup (IF task = "yf_quote" THEN {"noprice"} ELSE {})
        \cup (IF task = "hist_df" THEN {"short"} ELSE {})

\* the outcomes of an fmp_service / news_service task: it raises, returns
\* None, returns an empty container or returns data
PrimaryResults(task) ==
    {"raise", "none", "empty", "valid"}
        \cup (IF task = "fmp_quote" THEN {"noprice"} ELSE {})
        \cup (IF task = "fmp_income_5y" THEN {"invalid"} ELSE {})

Results(task) ==
    IF task \in PrimaryTasks THEN PrimaryResults(task) ELSE YahooResults(task)

\* the empty results of a task
Empties(task) == {"none", "empty"} \cap Results(task)


(***************************************************************************)
(* The helpers defined inside get_all_stock_data.                          *)
(***************************************************************************)
\* raw_data.get(key); raw holds the kind of each result
RawGet(raw, key) == IF key \in DOMAIN raw THEN Value(key, raw[key]) ELSE PyNone

\* safe_get_of without its isinstance(val, Exception) test
safe_get_of_keeps_exception(val, default) ==
    IF IsNone(val) THEN default
    ELSE IF IsList(val) /\ Len(val.kids) = 0 THEN default
    ELSE IF IsList(val) /\ IsDict(default) THEN val.kids[1]
    ELSE val

\* safe_get_of without its `val is None` test
safe_get_of_keeps_none(val, default) ==
    IF IsExc(val) THEN default
    ELSE IF IsList(val) /\ Len(val.kids) = 0 THEN default
    ELSE IF IsList(val) /\ IsDict(default) THEN val.kids[1]
    ELSE val

\* the body of safe_get, val = raw_data.get(key) read
safe_get_of(val, default) ==
    IF IsExc(val) \/ IsNone(val) THEN default
    ELSE IF IsList(val) /\ Len(val.kids) = 0 THEN default
    ELSE IF IsList(val) /\ IsDict(default) THEN val.kids[1]
    ELSE val

safe_get(raw, key, default) == safe_get_of(RawGet(raw, key), default)

\* the number of leading rows is_valid_financials inspects
ValidityWindow == 3

Min(a, b) == IF a <= b THEN a ELSE b

is_valid_financials(data) ==
    IF ~Truthy(data) \/ ~IsList(data) \/ Len(data.kids) = 0 THEN FALSE
    ELSE \E i \in 1..Min(ValidityWindow, Len(data.kids)) :
            \/ ~IsNone(DictGet(data.kids[i], "netIncome", PyNone))
            \/ ~IsNone(DictGet(data.kids[i], "revenue", PyNone))

sanitize_float(value) == IF IsNonFinite(value) THEN PyNone ELSE value

RECURSIVE clean_nans_flat(_)
\* clean_nans without its list branch
clean_nans_flat(obj) ==
    IF obj.t = "float" THEN (IF IsNonFinite(obj) THEN PyNone ELSE obj)
    ELSE IF obj.t = "dict"
        THEN PyDict([i \in 1..Len(obj.kids) |->
                        KV(obj.kids[i].s, clean_nans_flat(obj.kids[i].kids[1]))])
    ELSE obj

RECURSIVE clean_nans_compact(_)
\* clean_nans with a list branch that leaves the non-finite floats out
clean_nans_compact(obj) ==
    IF obj.t = "float" THEN (IF IsNonFinite(obj) THEN PyNone ELSE obj)
    ELSE IF obj.t = "dict"
        THEN PyDict([i \in 1..Len(obj.kids) |->
                        KV(obj.kids[i].s, clean_nans_compact(obj.kids[i].kids[1]))])
    ELSE IF obj.t = "list"
        THEN LET kept == SelectSeq(obj.kids, LAMBDA v : ~IsNonFinite(v))
             IN PyList([i \in 1..Len(kept) |-> clean_nans_compact(kept[i])])
    ELSE obj

RECURSIVE clean_nans(_)
clean_nans(obj) ==
    IF obj.t = "float" THEN (IF IsNonFinite(obj) THEN PyNone ELSE obj)
    ELSE IF obj.t = "dict"
        THEN PyDict([i \in 1..Len(obj.kids) |->
                        KV(obj.kids[i].s, clean_nans(obj.kids[i].kids[1]))])
    ELSE IF obj.t = "list"
        THEN PyList([i \in 1..Len(obj.kids) |-> clean_nans(obj.kids[i])])
    ELSE obj


(***************************************************************************)
(* The derived computations the handler calls.                             *)
(***************************************************************************)
\* Field with 0 standing in for a missing figure
Field_or_zero(rows, period, name) ==
    IF IsList(rows) /\ Len(rows.kids) >= period /\ IsDict(rows.kids[period])
    THEN DictGet(rows.kids[period], name, PyInt(0))
    ELSE PyInt(0)

\* the field of the statement row of a period (1 is the newest), None when
\* the period or the field is missing
Field(rows, period, name) ==
    IF IsList(rows) /\ Len(rows.kids) >= period /\ IsDict(rows.kids[period])
    THEN DictGet(rows.kids[period], name, PyNone)
    ELSE PyNone

\* a figure that is present: a finite number
Known(v) == IsNumber(v) /\ v.s \notin {"nan", "inf", "-inf"}

\* a / b > c / d, false when a figure is missing or a denominator is 0
RatioAbove(a, b, c, d) ==
    /\ Known(a) /\ Known(b) /\ Known(c) /\ Known(d)
    /\ Hundredths(b) # 0 /\ Hundredths(d) # 0
    /\ IF (Hundredths(b) > 0) = (Hundredths(d) > 0)
       THEN Hundredths(a) * Hundredths(d) > Hundredths(c) * Hundredths(b)
       ELSE Hundredths(a) * Hundredths(d) < Hundredths(c) * Hundredths(b)

\* the nine criteria, each satisfied or not, in the order of the spec
criteria_of(income, balance, cash_flow) ==
    <<GtC(Field(income, 1, "netIncome"), 0),
      GtC(Field(cash_flow, 1, "operatingCashFlow"), 0),
      RatioAbove(Field(income, 1, "netIncome"), Field(balance, 1, "totalAssets"),
                 Field(income, 2, "netIncome"), Field(balance, 2, "totalAssets")),
      /\ Known(Field(cash_flow, 1, "operatingCashFlow"))
      /\ Known(Field(income, 1, "netIncome"))
      /\ Hundredths(Field(cash_flow, 1, "operatingCashFlow"))
            > Hundredths(Field(income, 1, "netIncome")),
      RatioAbove(Field(balance, 2, "longTermDebt"), Field(balance, 2, "totalAssets"),
                 Field(balance, 1, "longTermDebt"), Field(balance, 1, "totalAssets")),
      RatioAbove(Field(balance, 1, "currentAssets"),
                 Field(balance, 1, "currentLiabilities"),
                 Field(balance, 2, "currentAssets"),
                 Field(balance, 2, "currentLiabilities")),
      /\ Known(Field(balance, 1, "sharesOutstanding"))
      /\ Known(Field(balance, 2, "sharesOutstanding"))
      /\ Hundredths(Field(balance, 1, "sharesOutstanding"))
            <= Hundredths(Field(balance, 2, "sharesOutstanding")),
      RatioAbove(Field(income, 1, "grossProfit"), Field(income, 1, "revenue"),
                 Field(income, 2, "grossProfit"), Field(income, 2, "revenue")),
      RatioAbove(Field(income, 1, "revenue"), Field(balance, 1, "totalAssets"),
                 Field(income, 2, "revenue"), Field(balance, 2, "totalAssets"))>>

\* the points of the criteria: 1 for one satisfied, else 0
points_of(criteria) == [k \in 1..Len(criteria) |-> IF criteria[k] THEN 1 ELSE 0]

RECURSIVE Total(_)
Total(points) == IF points = <<>> THEN 0 ELSE Head(points) + Total(Tail(points))

Scorecard(points) ==
    PyDict(<<KV("score", PyInt(Total(points))),
             KV("criteria", PyList([k \in 1..Len(points) |-> PyInt(points[k])]))>>)

\* fundamental_service.calculate_piotroski_f_score: a mapping with the
\* integer score and the points of the nine criteria
calculate_piotroski_f_score(income, balance, cash_flow) ==
    Scorecard(points_of(criteria_of(income, balance, cash_flow)))

\* fundamental_service.calculate_graham_scan: a mapping
calculate_graham_scan(profile, key_metrics, income) ==
    PyDict(<<KV("score", PyInt(IF is_valid_financials(income) THEN 1 ELSE 0))>>)

\* the value of an indicator whose window is `window`, on `bars` bars
Indicator(bars, window, hundredths) ==
    IF bars < window THEN PyNone ELSE PyFloat(hundredths)

\* the seven df.ta calls of lines 188-194, in order
TaCalls == {"rsi", "macd", "stoch", "adx", "atr", "willr", "bbands"}

\* lines 196-197: latest and prev, the last row and the one before it
latest_of(df) == df.kids[df.n]

prev_of(df) == IF df.n > 1 THEN df.kids[df.n - 1] ELSE latest_of(df)

\* lines 212-215
price_action_of(df) ==
    PyDict(<<
        KV("current_close", Close(latest_of(df))),
        KV("trend", PyStr(IF Gt(Close(latest_of(df)), Close(prev_of(df)))
                          THEN "UP" ELSE "DOWN"))>>)

\* lines 188-216, the body of the try statement.  The indicator columns come
\* from pandas_ta: a column is absent below its window, and ADX is NaN
\* during its warm-up; `raising` is the set of df.ta calls that raise.
indicators_of(df, raising) ==
    IF raising # {} THEN PyExc
    ELSE PyDict(<<
        KV("rsi", Indicator(df.n, 14, 6500)),
        KV("macd", Indicator(df.n, 26, 120)),
        KV("macdsignal", Indicator(df.n, 26, 90)),
        KV("stochasticsk", Indicator(df.n, 14, 8000)),
        KV("adx", IF df.n < 28 THEN PyNaN ELSE PyFloat(2500)),
        KV("atr", Indicator(df.n, 14, 210)),
        KV("williamsr", Indicator(df.n, 14, -2000)),
        KV("bollingerBands", PyDict(<<
            KV("upperBand", Indicator(df.n, 20, 11200)),
            KV("middleBand", Indicator(df.n, 20, 10800)),
            KV("lowerBand", Indicator(df.n, 20, 10400))>>)),
        KV("price_action", price_action_of(df))>>)

\* line 217: except: return {}
OrEmpty(result) == IF IsExc(result) THEN EmptyDict ELSE result

\* yahoo_service.calculate_technical_indicators when the df.ta calls in
\* `raising` raise
technical_indicators_when(df, raising) ==
    IF IsNone(df) \/ df.n = 0 THEN EmptyDict
    ELSE OrEmpty(indicators_of(df, raising))

\* yahoo_service.calculate_technical_indicators on a history pandas_ta
\* computes without raising
calculate_technical_indicators(df) == technical_indicators_when(df, {})

Status(status) == PyDict(<<KV("status", PyStr(status))>>)

\* a result that carries the box; of the message only the volume tag of a
\* breakout is kept
Box(status, result, box_top, box_bottom, volume_check) ==
    PyDict(<<KV("status", PyStr(status)), KV("message", PyStr(volume_check)),
             KV("box_top", box_top), KV("box_bottom", box_bottom),
             KV("result", PyStr(result))>>)

\* a * ka < b * kb, false when a or b is NaN
Less(a, ka, b, kb) ==
    ~IsNaN(a) /\ ~IsNaN(b) /\ Hundredths(a) * ka < Hundredths(b) * kb

\* the number of bars the box is taken from
BoxWindow == 15

\* the rows of the whole frame
recent_period_whole(hist_df) == 1..hist_df.n

\* line 42: the rows of hist_df.tail(15)
recent_period(hist_df) ==
    (IF hist_df.n > BoxWindow THEN hist_df.n - BoxWindow + 1 ELSE 1)..hist_df.n

Highest(values) == CHOOSE h \in values : \A g \in values : g <= h

Lowest(values) == CHOOSE l \in values : \A g \in values : l <= g

\* line 43: recent_period['high'].max()
box_top_of(hist_df) ==
    PyFloat(Highest({Hundredths(High(hist_df.kids[i])) : i \in recent_period(hist_df)}))

\* line 44: recent_period['low'].min()
box_bottom_of(hist_df) ==
    PyFloat(Lowest({Hundredths(Low(hist_df.kids[i])) : i \in recent_period(hist_df)}))

\* lines 46-72: the box is judged and the price placed in it; the comparison
\* of a value that is not a number raises
classify_box(current_price, current_volume, avg_volume, box_top, box_bottom) ==
    IF Less(box_bottom, 108, box_top, 100) THEN Status("No Box Formed")
    ELSE IF Less(box_top, 1, current_price, 1)
    THEN (IF ~IsNumber(current_volume) \/ ~IsNumber(avg_volume) THEN PyExc
          ELSE Box("Breakout!", "Pass", box_top, box_bottom,
                   IF Less(avg_volume, 15, current_volume, 10)
                   THEN "on high volume" ELSE "on average volume"))
    ELSE IF Less(current_price, 1, box_bottom, 1)
    THEN Box("Breakdown", "Fail", box_top, box_bottom, "")
    ELSE Box("In Box", "Neutral", box_top, box_bottom, "")

\* lines 26-72, the body of the try statement: the result, or an exception
darvas_box_of(hist_df, quote) ==
    IF ~IsDict(quote) THEN PyExc
    ELSE
      LET current_price == DictGet(quote, "price", PyNone)
          year_high == DictGet(quote, "yearHigh", PyNone)
      IN
      IF ~(Truthy(current_price) /\ Truthy(year_high)
            /\ Truthy(DictGet(quote, "avgVolume", PyNone))
            /\ Truthy(DictGet(quote, "volume", PyNone)))
      THEN Status("Insufficient Data")
      ELSE IF ~IsNumber(current_price) \/ ~IsNumber(year_high) THEN PyExc
      ELSE IF Less(current_price, 100, year_high, 90)
      THEN Status("Not a Candidate")
      ELSE classify_box(current_price, DictGet(quote, "volume", PyNone),
                        DictGet(quote, "avgVolume", PyNone),
                        box_top_of(hist_df), box_bottom_of(hist_df))

\* lines 74-76: except Exception
Caught(result) ==
    IF IsExc(result) THEN Status("Calculation Error") ELSE result

\* calculate_darvas_box without its try statement
calculate_darvas_box_unprotected(hist_df, quote, currency_code) ==
    IF IsNone(hist_df) \/ hist_df.n < 30 \/ ~Truthy(quote)
    THEN Status("Insufficient Data")
    ELSE darvas_box_of(hist_df, quote)

\* technical_service.calculate_darvas_box
calculate_darvas_box(hist_df, quote, currency_code) ==
    IF IsNone(hist_df) \/ hist_df.n < 30 \/ ~Truthy(quote)
    THEN Status("Insufficient Data")
    ELSE Caught(darvas_box_of(hist_df, quote))

\* the sum of the closes of rows lo..hi, in hundredths
RECURSIVE SumCloses(_, _, _)
SumCloses(rows, lo, hi) ==
    IF lo > hi THEN 0
    ELSE IF lo = hi THEN Hundredths(Close(rows[lo]))
    ELSE SumCloses(rows, lo, (lo + hi) \div 2)
         + SumCloses(rows, (lo + hi) \div 2 + 1, hi)

\* hist_df['close'].rolling(window=w).mean().iloc[-1]: NaN while the frame
\* has fewer than w rows
rolling_mean(hist_df, w) ==
    IF hist_df.n < w THEN PyNaN
    ELSE PyFloat(SumCloses(hist_df.kids, hist_df.n - w + 1, hist_df.n) \div w)

\* line 83 of technical_service: one gate in front of every window
too_short(hist_df) == hist_df.n = 0 \/ hist_df.n < 50

\* lines 88-95 of technical_service: the mapping of the six windows
mas_of(hist_df) ==
    PyDict(<<
        KV("5", rolling_mean(hist_df, 5)), KV("10", rolling_mean(hist_df, 10)),
        KV("20", rolling_mean(hist_df, 20)), KV("50", rolling_mean(hist_df, 50)),
        KV("100", IF hist_df.n >= 100 THEN rolling_mean(hist_df, 100) ELSE PyNone),
        KV("200", IF hist_df.n >= 200 THEN rolling_mean(hist_df, 200) ELSE PyNone)>>)

\* the averages of the year of history the handler fetches, evaluated once
LongAverages == mas_of(LongFrame)

\* technical_service.calculate_moving_averages
calculate_moving_averages(hist_df) ==
    IF IsNone(hist_df) \/ too_short(hist_df) THEN EmptyDict
    ELSE IF hist_df = LongFrame THEN LongAverages
    ELSE mas_of(hist_df)

Levels(pp, r1, s1, r2, s2, r3, s3) ==
    PyDict(<<KV("pp", PyFloat(pp)), KV("r1", PyFloat(r1)), KV("s1", PyFloat(s1)),
             KV("r2", PyFloat(r2)), KV("s2", PyFloat(s2)),
             KV("r3", PyFloat(r3)), KV("s3", PyFloat(s3))>>)

\* lines 113-137: the three sets of levels from high, low, close and
\* pivot_classic = (high + low + close) / 3, in hundredths
levels_of(high, low, close, pp) ==
    PyDict(<<
        KV("classic",
           Levels(pp, 2 * pp - low, 2 * pp - high, pp + (high - low),
                  pp - (high - low), high + 2 * (pp - low), low - 2 * (high - pp))),
        KV("fibonacci",
           Levels(pp, pp + (382 * (high - low)) \div 1000,
                  pp - (382 * (high - low)) \div 1000,
                  pp + (618 * (high - low)) \div 1000,
                  pp - (618 * (high - low)) \div 1000,
                  pp + (high - low), pp - (high - low))),
        KV("camarilla",
           Levels(pp, close + (11 * (high - low)) \div 120,
                  close - (11 * (high - low)) \div 120,
                  close + (11 * (high - low)) \div 60,
                  close - (11 * (high - low)) \div 60,
                  close + (11 * (high - low)) \div 40,
                  close - (11 * (high - low)) \div 40))>>)

\* hist_df.iloc[-1]
prev_day_last(hist_df) == hist_df.kids[hist_df.n]

\* line 109: hist_df.iloc[-2]
prev_day(hist_df) == hist_df.kids[hist_df.n - 1]

\* lines 109-139
pivots_of(bar) ==
    levels_of(Hundredths(High(bar)), Hundredths(Low(bar)), Hundredths(Close(bar)),
              (Hundredths(High(bar)) + Hundredths(Low(bar)) + Hundredths(Close(bar)))
              \div 3)

\* technical_service.calculate_pivot_points
calculate_pivot_points(hist_df) ==
    IF IsNone(hist_df) \/ hist_df.n < 2 THEN EmptyDict
    ELSE pivots_of(prev_day(hist_df))

\* line 200 of technical_service
window == 3

LowAt(hist_df, i) == Hundredths(Low(hist_df.kids[i]))

HighAt(hist_df, i) == Hundredths(High(hist_df.kids[i]))

\* line 204: range(window, len(hist_df) - window), as row numbers from 1
Interior(hist_df) == (window + 1)..(hist_df.n - window)

\* lines 206-210
is_support(hist_df, i) ==
    \A j \in 1..window :
        ~(LowAt(hist_df, i) > LowAt(hist_df, i - j)
            \/ LowAt(hist_df, i) > LowAt(hist_df, i + j))

\* lines 215-219
is_resistance(hist_df, i) ==
    \A j \in 1..window :
        ~(HighAt(hist_df, i) < HighAt(hist_df, i - j)
            \/ HighAt(hist_df, i) < HighAt(hist_df, i + j))

RECURSIVE Collect(_, _, _, _)
\* the levels of one kind of rows i..hist_df.n - window, in row order
Collect(hist_df, i, kind, price) ==
    IF i > hist_df.n - window THEN <<>>
    ELSE (IF kind = "Support"
          THEN IF is_support(hist_df, i) /\ LowAt(hist_df, i) < price
               THEN <<LowAt(hist_df, i)>> ELSE <<>>
          ELSE IF is_resistance(hist_df, i) /\ HighAt(hist_df, i) > price
               THEN <<HighAt(hist_df, i)>> ELSE <<>>)
         \o Collect(hist_df, i + 1, kind, price)

Abs(x) == IF x < 0 THEN -x ELSE x

RECURSIVE InsertByKey(_, _, _)
\* x put behind every element of the sorted values that is not farther from
\* the price
InsertByKey(x, values, price) ==
    IF values = <<>> THEN <<x>>
    ELSE IF Abs(Head(values) - price) <= Abs(x - price)
    THEN <<Head(values)>> \o InsertByKey(x, Tail(values), price)
    ELSE <<x>> \o values

RECURSIVE SortedByKey(_, _)
\* sorted(values, key=lambda x: abs(x - price)), a stable sort
SortedByKey(values, price) ==
    IF values = <<>> THEN <<>>
    ELSE InsertByKey(values[Len(values)],
                     SortedByKey(SubSeq(values, 1, Len(values) - 1), price),
                     price)

\* the levels kept in the order of their bars
nearest_in_bar_order(values, price) == SubSeq(values, 1, Min(3, Len(values)))

\* lines 226 and 228: sorted(..., key=lambda x: abs(x - current_price))[:3]
nearest(values, price) ==
    SubSeq(SortedByKey(values, price), 1, Min(3, Len(values)))

\* lines 231-232: sorted(supports, reverse=True) and sorted(resistances); the
\* levels are on one side of the price, so their order is that of the distance
Floated(values) == PyList([k \in 1..Len(values) |-> PyFloat(values[k])])

Found(supports, resistances) ==
    PyDict(<<KV("supports", supports), KV("resistances", resistances)>>)

\* lines 199-233, the body of the try statement
levels_found(hist_df, current_price) ==
    Found(
        Floated(SortedByKey(
            nearest(Collect(hist_df, window + 1, "Support", current_price),
                    current_price), current_price)),
        Floated(SortedByKey(
            nearest(Collect(hist_df, window + 1, "Resistance", current_price),
                    current_price), current_price)))

\* technical_service.calculate_support_resistance_levels
calculate_support_resistance_levels(hist_df) ==
    IF IsNone(hist_df) \/ hist_df.n < 20 THEN Found(EmptyList, EmptyList)
    ELSE levels_found(hist_df, Hundredths(Close(hist_df.kids[hist_df.n])))


(***************************************************************************)
(* sentiment_service.  Scores are floats in hundredths.                    *)
(***************************************************************************)
Scored(score, label) ==
    PyDict(<<KV("score", score), KV("label", PyStr(label))>>)

\* lines 20-27 with the scores of the two upper tiers exchanged
rsi_score_of_flat_top(rsi) ==
    IF IsNone(rsi) THEN 50
    ELSE IF GtC(rsi, 7000) THEN 75
    ELSE IF GtC(rsi, 6000) THEN 85
    ELSE IF GtC(rsi, 5000) THEN 60
    ELSE IF LtC(rsi, 3000) THEN 35
    ELSE IF LtC(rsi, 4000) THEN 40
    ELSE 45

\* lines 20-27
rsi_score_of(rsi) ==
    IF IsNone(rsi) THEN 50
    ELSE IF GtC(rsi, 7000) THEN 85
    ELSE IF GtC(rsi, 6000) THEN 75
    ELSE IF GtC(rsi, 5000) THEN 60
    ELSE IF LtC(rsi, 3000) THEN 35
    ELSE IF LtC(rsi, 4000) THEN 40
    ELSE 45

\* lines 31-36
macd_score_of(macd, macd_signal) ==
    IF IsNone(macd) \/ IsNone(macd_signal) THEN 50
    ELSE IF Gt(macd, macd_signal) THEN 80
    ELSE 20

calculate_technical_sentiment(technicals) ==
    IF ~Truthy(technicals) THEN Scored(PyInt(50), "Neutral")
    ELSE
      LET rsi == DictGet(technicals, "rsi", PyNone)
          macd == DictGet(technicals, "macd", PyNone)
          macd_signal == DictGet(technicals, "macdsignal", PyNone)
          t_score ==
              ((rsi_score_of(rsi) + macd_score_of(macd, macd_signal)) * 100) \div 2
          label == IF t_score >= 6000 THEN "Bullish"
                   ELSE IF t_score <= 4000 THEN "Bearish" ELSE "Neutral"
      IN Scored(PyFloat(t_score), label)

\* the sum of two scores; NaN when either is NaN
Plus(a, b) ==
    IF IsNaN(a) \/ IsNaN(b) THEN PyNaN ELSE PyFloat(Hundredths(a) + Hundredths(b))

\* lines 64-68: (piotroski_score / 9) * 100, 50 without a score
f_score_of(piotroski_score) ==
    IF IsNone(piotroski_score) THEN PyInt(50)
    ELSE IF IsNaN(piotroski_score) THEN PyNaN
    ELSE PyFloat((Hundredths(piotroski_score) * 100) \div 9)

\* lines 83-90 with `pe < 15` read as `pe <= 15`
val_score_of_inclusive(pe) ==
    IF ~IsNone(pe) /\ GtC(pe, 0)
    THEN (IF LeC(pe, 1500) THEN 100
          ELSE IF LtC(pe, 2500) THEN 75
          ELSE IF LtC(pe, 4000) THEN 40
          ELSE 20)
    ELSE IF ~IsNone(pe) /\ LeC(pe, 0) THEN 10
    ELSE 50

\* lines 83-90: the valuation score of the P/E
val_score_of(pe) ==
    IF ~IsNone(pe) /\ GtC(pe, 0)
    THEN (IF LtC(pe, 1500) THEN 100
          ELSE IF LtC(pe, 2500) THEN 75
          ELSE IF LtC(pe, 4000) THEN 40
          ELSE 20)
    ELSE IF ~IsNone(pe) /\ LeC(pe, 0) THEN 10
    ELSE 50

\* lines 93-98: the efficiency score of the return on capital
eff_score_of(roe) ==
    IF IsNone(roe) THEN 50
    ELSE IF GtC(roe, 20) THEN 100
    ELSE IF GtC(roe, 12) THEN 75
    ELSE IF GtC(roe, 5) THEN 50
    ELSE 25

\* latest.get(k, 0)
votes(latest, k) == Hundredths(DictGet(latest, k, PyInt(0))) \div 100

\* lines 115-121
total_votes_of(latest) ==
    votes(latest, "ratingStrongBuy") + votes(latest, "ratingBuy")
    + votes(latest, "ratingHold") + votes(latest, "ratingSell")
    + votes(latest, "ratingStrongSell")

\* lines 125-131
weighted_sum_of(latest) ==
    votes(latest, "ratingStrongBuy") * 100 + votes(latest, "ratingBuy") * 75
    + votes(latest, "ratingHold") * 50 + votes(latest, "ratingSell") * 25
    + votes(latest, "ratingStrongSell") * 0

\* weighted_sum / total_votes; a division by zero raises
TrueDiv(weighted_sum, total_votes) ==
    IF total_votes = 0 THEN PyExc
    ELSE PyFloat((weighted_sum * 100) \div total_votes)

\* lines 110-132 without the test of total_votes
a_score_of_unguarded(analyst_ratings) ==
    IF ~(Truthy(analyst_ratings) /\ Len(analyst_ratings.kids) > 0)
    THEN PyInt(50)
    ELSE TrueDiv(weighted_sum_of(analyst_ratings.kids[1]),
                 total_votes_of(analyst_ratings.kids[1]))

\* lines 110-132: the analyst score, from the first entry of the ratings
a_score_of(analyst_ratings) ==
    IF ~(Truthy(analyst_ratings) /\ Len(analyst_ratings.kids) > 0)
    THEN PyInt(50)
    ELSE IF total_votes_of(analyst_ratings.kids[1]) > 0
    THEN TrueDiv(weighted_sum_of(analyst_ratings.kids[1]),
                 total_votes_of(analyst_ratings.kids[1]))
    ELSE PyInt(50)

\* line 148 with the sum divided by the three pillars of an older version
total_score_of_three(sum) ==
    IF IsNaN(sum) THEN PyNaN ELSE PyFloat(Hundredths(sum) \div 3)

\* line 148: the sum of the four pillars, divided by 4
total_score_of(sum) ==
    IF IsNaN(sum) THEN PyNaN ELSE PyFloat(Hundredths(sum) \div 4)

\* lines 151-155 with `>= 75` read as `> 75`
verdict_of_exclusive(total_score) ==
    IF GtC(total_score, 7500) THEN "Strong Buy"
    ELSE IF GtC(total_score, 5999) THEN "Buy"
    ELSE IF LeC(total_score, 2500) THEN "Strong Sell"
    ELSE IF LeC(total_score, 4000) THEN "Sell"
    ELSE "Neutral"

\* lines 151-155
verdict_of(total_score) ==
    IF GtC(total_score, 7499) THEN "Strong Buy"
    ELSE IF GtC(total_score, 5999) THEN "Buy"
    ELSE IF LeC(total_score, 2500) THEN "Strong Sell"
    ELSE IF LeC(total_score, 4000) THEN "Sell"
    ELSE "Neutral"

\* F(value), with the value computed once, as a local variable of the code is
With(value, F(_)) == CHOOSE result \in {F(v) : v \in {value}} : TRUE

\* lines 148-170: the result, from the four pillar scores
sentiment_of(f_score, val_score, fin_score, a_score, tech_data, total_score) ==
    PyDict(<<
        KV("score", total_score),
        KV("verdict", PyStr(verdict_of(total_score))),
        KV("breakdown", PyDict(<<
            KV("fundamental", Scored(f_score,
                IF GtC(f_score, 7000) THEN "Strong"
                ELSE IF LtC(f_score, 4000) THEN "Weak" ELSE "Stable")),
            KV("financial", Scored(fin_score,
                IF val_score > 70 THEN "Undervalued"
                ELSE IF val_score < 40 THEN "Overvalued" ELSE "Fair Value")),
            KV("analyst", Scored(a_score,
                IF GtC(a_score, 6000) THEN "Buy"
                ELSE IF LtC(a_score, 4000) THEN "Sell" ELSE "Hold")),
            KV("technical", tech_data)>>))>>)

calculate_overall_sentiment(piotroski_score, key_metrics, technicals, analyst_ratings) ==
    LET f_score == f_score_of(piotroski_score)
        val_score == val_score_of(DictGet(key_metrics, "peRatioTTM", PyNone))
        eff_score ==
            eff_score_of(DictGet(key_metrics, "returnOnCapitalEmployedTTM", PyNone))
        fin_score == PyFloat(val_score * 60 + eff_score * 40)
        a_score == a_score_of(analyst_ratings)
    IN With(calculate_technical_sentiment(technicals), LAMBDA tech_data :
         With(total_score_of(Plus(Plus(f_score, fin_score),
                                  Plus(a_score, DictGet(tech_data, "score", PyNone)))),
              LAMBDA total_score :
                sentiment_of(f_score, val_score, fin_score, a_score,
                             tech_data, total_score)))


(***************************************************************************)
(* The merge of get_all_stock_data, block by block.  A block takes the     *)
(* handler's locals st = [fd, log, ok]: fd is final_data, log the keys of  *)
(* final_data in the order they were assigned, ok is FALSE once a          *)
(* statement has raised.                                                   *)
(***************************************************************************)
\* final_data[key] = value
Put(st, key, value) ==
    IF ~st.ok THEN st
    ELSE [st EXCEPT !.fd = DictSet(@, key, value), !.log = Append(@, key)]

\* an uncaught exception leaves the handler
Raise(st) == [st EXCEPT !.ok = FALSE]

\* x.get(...) raises AttributeError unless x is a dict
CanGet(x) == IsDict(x)

Fresh == [fd |-> EmptyDict, log |-> <<>>, ok |-> TRUE]

p_fmp(raw) == safe_get(raw, "fmp_profile", EmptyDict)

q_fmp(raw) == safe_get(raw, "fmp_quote", EmptyDict)

\* not p_fmp or not q_fmp.get('price')
UseSecondaryProfileQuote(raw) ==
    ~Truthy(p_fmp(raw)) \/ ~Truthy(DictGet(q_fmp(raw), "price", PyNone))

\* lines 378-395; p_yf and q_yf are the answers of the two fetches awaited
\* on the default-exchange path
ProfileQuote(st, raw, intl, p_yf, q_yf) ==
    IF Truthy(p_fmp(raw)) /\ ~CanGet(q_fmp(raw)) THEN Raise(st)
    ELSE IF UseSecondaryProfileQuote(raw)
    THEN IF ~intl
         THEN Put(Put(st, "profile", p_yf), "quote", q_yf)
         ELSE Put(Put(st, "profile", safe_get(raw, "yf_profile", EmptyDict)),
                  "quote", safe_get(raw, "yf_quote", EmptyDict))
    ELSE Put(Put(st, "profile", p_fmp(raw)), "quote", q_fmp(raw))

\* lines 397-400 with the two operands of the merge exchanged
Metrics_yahoo_over_fmp(st, raw) ==
    LET fmp_m == safe_get(raw, "fmp_key_metrics", EmptyDict)
        yf_m == safe_get(raw, "yf_key_fundamentals", EmptyDict)
    IN IF ~IsDict(fmp_m) \/ ~IsDict(yf_m) THEN Raise(st)
       ELSE Put(st, "key_metrics", DictUpdate(fmp_m, yf_m))

\* lines 397-400
Metrics(st, raw) ==
    LET fmp_m == safe_get(raw, "fmp_key_metrics", EmptyDict)
        yf_m == safe_get(raw, "yf_key_fundamentals", EmptyDict)
    IN IF ~IsDict(fmp_m) \/ ~IsDict(yf_m) THEN Raise(st)
       ELSE Put(st, "key_metrics", DictUpdate(yf_m, fmp_m))

fmp_inc(raw) == safe_get(raw, "fmp_income_5y", EmptyList)

\* the default of safe_get('yf_historical_financials', ...)
IncomeOnly == PyDict(<<KV("income", EmptyList)>>)

\* lines 402-426; yf_hist and yf_q are the answers of the two fetches awaited
\* on the default-exchange path
Financials(st, raw, intl, yf_hist_now, yf_q_now) ==
    IF is_valid_financials(fmp_inc(raw))
    THEN Put(Put(Put(Put(Put(Put(st,
            "annual_revenue_and_profit", fmp_inc(raw)),
            "annual_balance_sheets", safe_get(raw, "fmp_balance_5y", EmptyList)),
            "annual_cash_flow_statements", safe_get(raw, "fmp_cash_flow_5y", EmptyList)),
            "quarterly_income_statements", safe_get(raw, "fmp_quarterly_income", EmptyList)),
            "quarterly_balance_sheets", safe_get(raw, "fmp_quarterly_balance", EmptyList)),
            "quarterly_cash_flow_statements",
                safe_get(raw, "fmp_quarterly_cash_flow", EmptyList))
    ELSE
      LET yf_hist == IF ~intl THEN yf_hist_now
                     ELSE safe_get(raw, "yf_historical_financials", IncomeOnly)
          yf_q == IF ~intl THEN yf_q_now
                  ELSE safe_get(raw, "yf_quarterly_financials", IncomeOnly)
      IN IF ~CanGet(yf_hist) \/ ~CanGet(yf_q) THEN Raise(st)
         ELSE Put(Put(Put(Put(Put(Put(st,
            "annual_revenue_and_profit", DictGet(yf_hist, "income", EmptyList)),
            "annual_balance_sheets", DictGet(yf_hist, "balance", EmptyList)),
            "annual_cash_flow_statements", DictGet(yf_hist, "cash_flow", EmptyList)),
            "quarterly_income_statements", DictGet(yf_q, "income", EmptyList)),
            "quarterly_balance_sheets", DictGet(yf_q, "balance", EmptyList)),
            "quarterly_cash_flow_statements", DictGet(yf_q, "cash_flow", EmptyList))

\* final_data[key]
Fd(st, key) == DictGet(st.fd, key, PyNone)

\* lines 428-436
Calculations(st) ==
    IF ~st.ok THEN st
    ELSE Put(Put(st,
        "piotroski_f_score", calculate_piotroski_f_score(
            Fd(st, "annual_revenue_and_profit"), Fd(st, "annual_balance_sheets"),
            Fd(st, "annual_cash_flow_statements"))),
        "graham_scan", calculate_graham_scan(
            Fd(st, "profile"), Fd(st, "key_metrics"),
            Fd(st, "annual_revenue_and_profit")))

\* lines 439-440: the price history of the batch is unusable
NeedsHistoryAgain(raw) ==
    IsExc(RawGet(raw, "hist_df")) \/ IsNone(RawGet(raw, "hist_df"))

\* lines 443-454
TechnicalsSentiment(st, raw, hist_df) ==
    IF ~st.ok THEN st
    ELSE IF ~CanGet(Fd(st, "profile")) \/ ~CanGet(Fd(st, "piotroski_f_score"))
    THEN Raise(st)
    ELSE
      With(calculate_technical_indicators(hist_df), LAMBDA technicals :
         Put(Put(Put(Put(Put(st,
            "technical_indicators", technicals),
            "darvas_scan", calculate_darvas_box(hist_df, Fd(st, "quote"),
                                DictGet(Fd(st, "profile"), "currency", PyNone))),
            "moving_averages", calculate_moving_averages(hist_df)),
            "pivot_points", calculate_pivot_points(hist_df)),
            "overall_sentiment", calculate_overall_sentiment(
                DictGet(Fd(st, "piotroski_f_score"), "score", PyNone),
                Fd(st, "key_metrics"), technicals,
                safe_get(raw, "yf_recommendations", EmptyList))))

fmp_hold(raw) == safe_get(raw, "shareholding", EmptyList)

RECURSIVE SumShares(_)
\* sum(h.get('shares', 0) for h in holders)
SumShares(holders) ==
    IF holders = <<>> THEN 0
    ELSE Hundredths(DictGet(Head(holders), "shares", PyInt(0))) \div 100
            + SumShares(Tail(holders))

\* lines 456-468; yf_hold_sum_now is the answer of the fetch awaited on the
\* default-exchange path
Shareholding(st, raw, intl, yf_hold_sum_now) ==
    IF Truthy(fmp_hold(raw))
    THEN IF \E i \in 1..Len(fmp_hold(raw).kids) : ~CanGet(fmp_hold(raw).kids[i])
         THEN Raise(st)
         ELSE
           LET total_inst == SumShares(fmp_hold(raw).kids)
           IN Put(Put(st,
                "shareholding_breakdown", PyDict(<<
                    KV("promoter", PyInt(0)), KV("fii", PyFloat(total_inst * 60)),
                    KV("dii", PyFloat(total_inst * 40)), KV("public", PyInt(0))>>)),
                "shareholding", fmp_hold(raw))
    ELSE
      LET yf_hold_sum == IF ~intl THEN yf_hold_sum_now
                         ELSE safe_get(raw, "yf_shareholding", EmptyDict)
      IN Put(Put(st, "shareholding_breakdown", yf_hold_sum),
             "shareholding", EmptyList)

\* lines 489-504
KeyStats(fd, raw) ==
    LET k_met == DictGet(fd, "key_metrics", EmptyDict)
        k_prof == DictGet(fd, "profile", EmptyDict)
        k_quo == DictGet(fd, "quote", EmptyDict)
        k_est == safe_get(raw, "analyst_estimates", EmptyDict)
        met(k) == DictGet(k_met, k, PyNone)
        est(k) == IF IsDict(k_est) THEN DictGet(k_est, k, PyNone) ELSE PyNone
        stat(k, v) == KV(k, sanitize_float(v))
    IN PyDict(<<
        stat("marketCap", PyOr(DictGet(k_prof, "mktCap", PyNone), met("marketCap"))),
        stat("dividendYield", met("dividendYieldTTM")),
        stat("peRatio", met("peRatioTTM")),
        stat("basicEPS", met("epsTTM")),
        stat("netIncome", met("netIncomePerShareTTM")),
        stat("revenue", met("revenuePerShareTTM")),
        stat("sharesFloat", PyOr(DictGet(k_quo, "sharesOutstanding", PyNone),
                                 met("sharesOutstanding"))),
        stat("beta", PyOr(DictGet(k_prof, "beta", PyNone), met("beta"))),
        stat("employees", PyOr(DictGet(k_prof, "fullTimeEmployees", PyNone),
                               met("fullTimeEmployees"))),
        stat("nextReportDate", est("date")),
        stat("epsEstimate", est("estimatedEpsAvg")),
        stat("revenueEstimate", est("estimatedRevenueAvg"))>>)

\* lines 474-478: final_data['profile']['tradingview_symbol'] = tv_symbol
TagProfile(st, sym) ==
    IF ~st.ok THEN st
    ELSE IF ~IsDict(Fd(st, "profile")) THEN Raise(st)
    ELSE [st EXCEPT !.fd = DictSet(@, "profile",
                DictSet(DictGet(@, "profile", PyNone), "tradingview_symbol",
                        PyStr(TvSymbol(sym))))]

\* lines 480-504
PutKeyStats(st, raw) ==
    IF ~st.ok THEN st
    ELSE IF ~CanGet(Fd(st, "key_metrics")) \/ ~CanGet(Fd(st, "quote"))
    THEN Raise(st)
    ELSE Put(st, "keyStats", KeyStats(st.fd, raw))

\* lines 470-504
Tail_(st, raw, sym) ==
    PutKeyStats(
        TagProfile(
            Put(Put(Put(st,
                "news", safe_get(raw, "news", EmptyList)),
                "analyst_ratings", safe_get(raw, "yf_recommendations", EmptyList)),
                "price_target_consensus", safe_get(raw, "yf_price_target", EmptyDict)),
            sym),
        raw)


(***************************************************************************)
(* The fetches awaited one by one after the join.                          *)
(***************************************************************************)
LazyFetches ==
    {"yf_profile", "yf_quote", "yf_historical_financials",
     "yf_quarterly_financials", "hist_df", "yf_shareholding"}

NoAnswers == [f \in LazyFetches |-> "unasked"]

\* hist_df after lines 439-441
HistDf(raw, answers) ==
    IF NeedsHistoryAgain(raw) THEN Value("hist_df", answers["hist_df"])
    ELSE RawGet(raw, "hist_df")

\* the whole of lines 358-514 on the joined results raw, given the answers
\* of the fetches awaited after the join
Respond(sym, raw, answers) ==
    LET intl == IsInternational(sym)
        got(name) == Value(name, answers[name])
        s1 == ProfileQuote(Fresh, raw, intl, got("yf_profile"), got("yf_quote"))
        s2 == Metrics(s1, raw)
        s3 == Financials(s2, raw, intl, got("yf_historical_financials"),
                         got("yf_quarterly_financials"))
        s4 == Calculations(s3)
        s5 == TechnicalsSentiment(s4, raw, HistDf(raw, answers))
        s6 == Shareholding(s5, raw, intl, got("yf_shareholding"))
        s7 == Tail_(s6, raw, sym)
    IN [ok |-> s7.ok, body |-> IF s7.ok THEN clean_nans(s7.fd) ELSE PyNone]

(***************************************************************************)
(* The state of one request.                                               *)
(***************************************************************************)
VARIABLES
    symbol,      \* the symbol of the request
    outcome,     \* what the first call of each fetch answers
    pc,          \* the handler's position
    queue,       \* batch tasks whose call has not started yet
    running,     \* operations in flight: batch tasks, awaited fetches
    raw_data,    \* the results collected from the batch, by kind
    answers,     \* the answers of the fetches awaited after the join, by kind
    final_data,  \* the merged mapping
    assigned,    \* the keys of final_data, in the order they were assigned
    fetch_log,   \* every fetch issued: its name, its phase, how many results were known
    response,    \* the value returned
    call         \* a call of one of the services' functions: its arguments, its result

vars == <<symbol, outcome, pc, queue, running, raw_data, answers, final_data,
          assigned, fetch_log, response, call>>

\* no function is called on its own during a request
NoCall == [fn |-> "", args |-> <<>>, done |-> FALSE, result |-> PyNone]

\* how many fetches of a request may answer differently from their
\* provider's general state
MaxDeviations == 1

\* the worker threads of the executor behind asyncio.to_thread
MaxWorkers == 2

\* every fetch of a provider answers by the provider's state
Baseline(primary, secondary) ==
    [t \in Fetches |->
        IF t \in PrimaryTasks THEN primary ELSE secondary]

RECURSIVE Deviated(_, _)
\* the outcomes that differ from those of S in at most k fetches
Deviated(S, k) ==
    IF k = 0 THEN S
    ELSE LET prev == Deviated(S, k - 1)
         IN prev \cup UNION {UNION {{[o EXCEPT ![t] = r] : r \in Results(t)}
                                        : t \in Fetches} : o \in prev}

\* both providers serve data; the primary raises and the secondary has nothing
Baselines == {Baseline("valid", "valid"), Baseline("raise", "empty")}

InitWith(outcomes) ==
    /\ symbol \in Symbols
    /\ outcome \in outcomes
    /\ pc = "start"
    /\ queue = <<>>
    /\ running = {}
    /\ raw_data = <<>>
    /\ answers = NoAnswers
    /\ final_data = EmptyDict
    /\ assigned = <<>>
    /\ fetch_log = <<>>
    /\ response = PyNone
    /\ call = NoCall

Init == InitWith(Deviated(Baselines, MaxDeviations))

is_international == IsInternational(symbol)

Batch == Range(BatchTasks(is_international))

Issued(name, phase) ==
    [fetch |-> name, phase |-> phase, known |-> Cardinality(DOMAIN raw_data)]

\* lines 308-352: the tasks are built and handed to asyncio.gather
Dispatch ==
    /\ pc = "start"
    /\ queue' = BatchTasks(is_international)
    /\ fetch_log' = [i \in 1..Len(BatchTasks(is_international)) |->
                        Issued(BatchTasks(is_international)[i], "batch")]
    /\ pc' = "gather"
    /\ UNCHANGED <<call, symbol, outcome, running, raw_data, answers, final_data,
                   assigned, response>>

\* asyncio.gather without return_exceptions
return_exceptions_off == FALSE

\* asyncio.gather(..., return_exceptions=True)
return_exceptions == TRUE

\* gather raises the first exception of a task unless told to return it
GatherRaises(raw) ==
    ~return_exceptions /\ \E t \in DOMAIN raw : IsExc(Value(t, raw[t]))

\* a join that returns with the first task to resolve
GatherOver_first(raw, batch) == DOMAIN raw # {} \/ GatherRaises(raw)

\* a join that waits for every fetch the handler knows, submitted or not
GatherOver_every_fetch(raw, batch) == DOMAIN raw = Fetches \/ GatherRaises(raw)

\* gather returns once every task has resolved, or raises
GatherOver(raw, batch) == DOMAIN raw = batch \/ GatherRaises(raw)

\* lines 351-356
AfterGather(raw) == IF GatherRaises(raw) THEN "failed" ELSE "profile_quote"

\* a worker thread takes the next queued call
StartTask ==
    /\ pc = "gather"
    /\ queue # <<>>
    /\ Cardinality(running) < MaxWorkers
    /\ running' = running \cup {Head(queue)}
    /\ queue' = Tail(queue)
    /\ UNCHANGED <<call, symbol, outcome, pc, raw_data, answers, final_data,
                   assigned, fetch_log, response>>

\* a call of the batch returns or raises
CompleteTask(t) ==
    /\ pc = "gather"
    /\ t \in running
    /\ running' = running \ {t}
    /\ raw_data' = [k \in DOMAIN raw_data \cup {t} |->
                        IF k = t THEN outcome[t] ELSE raw_data[k]]
    /\ UNCHANGED <<call, symbol, outcome, pc, queue, answers, final_data,
                   assigned, fetch_log, response>>

\* line 352: the await of gather resumes the handler
Join ==
    /\ pc = "gather"
    /\ GatherOver(raw_data, Batch)
    /\ pc' = AfterGather(raw_data)
    /\ UNCHANGED <<call, symbol, outcome, queue, running, raw_data, answers,
                   final_data, assigned, fetch_log, response>>

\* the batch and its join in one step: results are collected by position,
\* whatever the order in which the calls finish
GatherAll ==
    /\ pc = "gather"
    /\ queue' = <<>>
    /\ raw_data' = [t \in Batch |-> outcome[t]]
    /\ pc' = AfterGather(raw_data')
    /\ UNCHANGED <<call, symbol, outcome, running, answers, final_data, assigned,
                   fetch_log, response>>


(***************************************************************************)
(* After the join.  Each action is a stretch of the handler between two    *)
(* awaits; an await of asyncio.to_thread is an Await... action that puts   *)
(* the call in flight and the action that resumes with its answer.         *)
(***************************************************************************)
Cur == [fd |-> final_data, log |-> assigned, ok |-> TRUE]

\* the answer received from an awaited fetch
Answer(name) == Value(name, answers[name])

\* the handler goes on at `next` with the locals st, or leaves by an
\* uncaught exception
Commit(st, next) ==
    /\ final_data' = st.fd
    /\ assigned' = st.log
    /\ pc' = IF st.ok THEN next ELSE "failed"

\* the call started as a task that is not awaited
Await_detached(name) ==
    /\ running' = running \cup {name}
    /\ fetch_log' = Append(fetch_log, Issued(name, "lazy"))

\* await asyncio.to_thread(<fetch name>, symbol)
Await(name) ==
    /\ running' = {name}
    /\ fetch_log' = Append(fetch_log, Issued(name, "lazy"))

\* the awaited call returns `answer`
Resume(name, answer) ==
    /\ running = {name}
    /\ answers' = [answers EXCEPT ![name] = answer]

\* lines 378-395, up to the first await
MergeProfileQuote ==
    /\ pc = "profile_quote"
    /\ IF UseSecondaryProfileQuote(raw_data) /\ ~is_international
            /\ ~(Truthy(p_fmp(raw_data)) /\ ~CanGet(q_fmp(raw_data)))
       THEN /\ Await("yf_profile")
            /\ pc' = "await_yf_profile"
            /\ UNCHANGED <<final_data, assigned>>
       ELSE /\ Commit(ProfileQuote(Cur, raw_data, is_international, PyNone, PyNone),
                      "financials")
            /\ UNCHANGED <<running, fetch_log>>
    /\ UNCHANGED <<call, symbol, outcome, queue, raw_data, answers, response>>

\* line 385 returns, line 386 awaits
ResumeProfile ==
    /\ pc = "await_yf_profile"
    /\ Resume("yf_profile", outcome["yf_profile"])
    /\ Await("yf_quote")
    /\ pc' = "await_yf_quote"
    /\ UNCHANGED <<call, symbol, outcome, queue, raw_data, final_data, assigned, response>>

\* line 386 returns; lines 387-388
ResumeQuote ==
    /\ pc = "await_yf_quote"
    /\ Resume("yf_quote", outcome["yf_quote"])
    /\ running' = {}
    /\ Commit(ProfileQuote(Cur, raw_data, is_international,
                           Answer("yf_profile"), Value("yf_quote", outcome["yf_quote"])),
              "financials")
    /\ UNCHANGED <<call, symbol, outcome, queue, raw_data, fetch_log, response>>

\* lines 397-426, up to the first await
MergeFinancials ==
    /\ pc = "financials"
    /\ LET st == Metrics(Cur, raw_data) IN
       IF st.ok /\ ~is_valid_financials(fmp_inc(raw_data)) /\ ~is_international
       THEN /\ Await("yf_historical_financials")
            /\ Commit(st, "await_yf_historical_financials")
       ELSE /\ Commit(Financials(st, raw_data, is_international, PyNone, PyNone),
                      "calculations")
            /\ UNCHANGED <<running, fetch_log>>
    /\ UNCHANGED <<call, symbol, outcome, queue, raw_data, answers, response>>

\* line 415 returns, line 416 awaits
ResumeHistoricalFinancials ==
    /\ pc = "await_yf_historical_financials"
    /\ Resume("yf_historical_financials", outcome["yf_historical_financials"])
    /\ Await("yf_quarterly_financials")
    /\ pc' = "await_yf_quarterly_financials"
    /\ UNCHANGED <<call, symbol, outcome, queue, raw_data, final_data, assigned, response>>

\* line 416 returns; lines 421-426
ResumeQuarterlyFinancials ==
    /\ pc = "await_yf_quarterly_financials"
    /\ Resume("yf_quarterly_financials", outcome["yf_quarterly_financials"])
    /\ running' = {}
    /\ Commit(Financials(Cur, raw_data, is_international,
                         Answer("yf_historical_financials"),
                         Value("yf_quarterly_financials",
                               outcome["yf_quarterly_financials"])),
              "calculations")
    /\ UNCHANGED <<call, symbol, outcome, queue, raw_data, fetch_log, response>>

\* lines 428-443, up to the await of line 441 or of line 443
Calculate ==
    /\ pc = "calculations"
    /\ IF NeedsHistoryAgain(raw_data)
       THEN /\ Await("hist_df")
            /\ Commit(Calculations(Cur), "await_hist_df")
       ELSE /\ running' = {"calculate_technical_indicators"}
            /\ Commit(Calculations(Cur), "await_indicators")
            /\ UNCHANGED fetch_log
    /\ UNCHANGED <<call, symbol, outcome, queue, raw_data, answers, response>>

\* line 441 returns: a second call of get_historical_data, with its own
\* answer; line 443 awaits
ResumeHistory ==
    /\ pc = "await_hist_df"
    /\ \E r \in YahooResults("hist_df") : Resume("hist_df", r)
    /\ running' = {"calculate_technical_indicators"}
    /\ pc' = "await_indicators"
    /\ UNCHANGED <<call, symbol, outcome, queue, raw_data, final_data, assigned,
                   fetch_log, response>>

\* line 443 returns; lines 443-454
ResumeIndicators ==
    /\ pc = "await_indicators"
    /\ running = {"calculate_technical_indicators"}
    /\ running' = {}
    /\ Commit(TechnicalsSentiment(Cur, raw_data, HistDf(raw_data, answers)),
              "shareholding")
    /\ UNCHANGED <<call, symbol, outcome, queue, raw_data, answers, fetch_log, response>>

\* lines 456-468, up to the await of line 464
MergeShareholding ==
    /\ pc = "shareholding"
    /\ IF ~Truthy(fmp_hold(raw_data)) /\ ~is_international
       THEN /\ Await("yf_shareholding")
            /\ pc' = "await_yf_shareholding"
            /\ UNCHANGED <<final_data, assigned>>
       ELSE /\ Commit(Shareholding(Cur, raw_data, is_international, PyNone), "tail")
            /\ UNCHANGED <<running, fetch_log>>
    /\ UNCHANGED <<call, symbol, outcome, queue, raw_data, answers, response>>

\* line 464 returns: a second call of get_shareholding_summary, with its own
\* answer; lines 467-468
ResumeShareholding ==
    /\ pc = "await_yf_shareholding"
    /\ \E r \in YahooResults("yf_shareholding") :
        /\ Resume("yf_shareholding", r)
        /\ Commit(Shareholding(Cur, raw_data, is_international,
                              Value("yf_shareholding", r)), "tail")
    /\ running' = {}
    /\ UNCHANGED <<call, symbol, outcome, queue, raw_data, fetch_log, response>>

\* line 514: return clean_nans(final_data)
ReturnWith(st) ==
    \E s \in {st} :
        /\ Commit(s, "done")
        /\ response' = IF s.ok THEN clean_nans(s.fd) ELSE PyNone

\* lines 470-514
Return ==
    /\ pc = "tail"
    /\ ReturnWith(Tail_(Cur, raw_data, symbol))
    /\ UNCHANGED <<call, symbol, outcome, queue, running, raw_data, answers, fetch_log>>

AfterJoin ==
    \/ MergeProfileQuote \/ ResumeProfile \/ ResumeQuote
    \/ MergeFinancials \/ ResumeHistoricalFinancials \/ ResumeQuarterlyFinancials
    \/ Calculate \/ ResumeHistory \/ ResumeIndicators
    \/ MergeShareholding \/ ResumeShareholding
    \/ Return

Next == Dispatch \/ GatherAll \/ AfterJoin

Spec == Init /\ [][Next]_vars

\* the batch with its calls in flight one by one
InitConc == InitWith(Baselines)

NextConc ==
    \/ Dispatch \/ StartTask \/ (\E t \in Fetches : CompleteTask(t)) \/ Join
    \/ AfterJoin

SpecConc == InitConc /\ [][NextConc]_vars

\* The scheduling the handler runs under: the event loop resumes a coroutine
\* whose await has returned, the thread pool starts a queued call when a
\* worker is free, and every call of a fetch returns or raises in the end
\* (the fetch layer bounds it).
SpecFair ==
    /\ SpecConc
    /\ WF_vars(Dispatch \/ StartTask \/ Join \/ AfterJoin)
    /\ WF_vars(\E t \in Fetches : CompleteTask(t))


(***************************************************************************)
(* The functions of the services and of the handler, called on their own:  *)
(* `call` holds the arguments of one call, then its result.                *)
(***************************************************************************)
\* how deep the values handed to clean_nans nest
MaxDepth == 2

Pending(fn, args) == [fn |-> fn, args |-> args, done |-> FALSE, result |-> PyNone]

\* the values that are not containers
Leaves ==
    {PyNone, PyInt(1), PyFloat(150), PyNaN, PyInf, PyNegInf, PyStr("a"),
     PyBool(TRUE)}

\* the containers that hold v, alone or next to the leaf l
Containers(v, l) ==
    {PyList(<<v>>), PyList(<<l, v>>), PyDict(<<KV("a", v)>>),
     PyDict(<<KV("a", v), KV("b", l)>>)}

RECURSIVE Nested(_, _)
\* a leaf inside d containers at most, the leaf l next to it on the way
Nested(d, l) ==
    IF d = 0 THEN Leaves
    ELSE LET inner == Nested(d - 1, l)
         IN inner \cup UNION {Containers(v, l) : v \in inner}

\* lists and dicts of leaves and of lists and dicts, d levels deep at most
NestedValues(d) == UNION {Nested(d, l) : l \in Leaves}

CleanNansCalls == {Pending("clean_nans", <<x>>) : x \in NestedValues(MaxDepth)}

\* how many analysts may stand behind one rating
MaxVotes == 2

KeyMetrics(pe, roe) ==
    PyDict(<<KV("peRatioTTM", pe), KV("returnOnCapitalEmployedTTM", roe)>>)

Snapshot(rsi, macd, macd_signal) ==
    PyDict(<<KV("rsi", rsi), KV("macd", macd), KV("macdsignal", macd_signal)>>)

Ratings(strong_buy, buy, hold, sell, strong_sell) ==
    PyDict(<<KV("ratingStrongBuy", PyInt(strong_buy)), KV("ratingBuy", PyInt(buy)),
             KV("ratingHold", PyInt(hold)), KV("ratingSell", PyInt(sell)),
             KV("ratingStrongSell", PyInt(strong_sell))>>)

Floats(hundredths) == {PyFloat(h) : h \in hundredths}

PiotroskiScores == {PyNone} \cup {PyInt(i) : i \in 0..9}

PeValues ==
    {PyNone, PyNaN}
    \cup Floats({-500, 0, 1, 1000, 1499, 1500, 2000, 2499, 2500, 3000, 3999,
                 4000, 5000})

RoeValues == {PyNone, PyNaN} \cup Floats({-10, 0, 3, 5, 6, 12, 13, 20, 21, 25})

RsiValues ==
    {PyNone, PyNaN}
    \cup Floats({0, 2500, 2999, 3000, 3500, 3999, 4000, 4500, 5000, 5001, 5500,
                 6000, 6001, 6500, 7000, 7001, 7500, 10000})

MacdValues == {PyNone, PyNaN} \cup Floats({-50, 90, 120})

\* the ratings lists: none, empty, an entry without counts, and every entry
\* of counts followed by an older entry
RatingsLists ==
    {PyNone, EmptyList, PyList(<<PyDict(<<KV("ratingBuy", PyInt(1))>>)>>)}
    \cup {PyList(<<Ratings(v[1], v[2], v[3], v[4], v[5]), Ratings(0, 0, 0, 0, 1)>>) :
            v \in [1..5 -> 0..MaxVotes]}

\* the extremes of each pillar, in every combination
Extremes ==
    {<<p, KeyMetrics(pe, roe), t, r>> :
        p \in {PyNone, PyInt(0), PyInt(5), PyInt(9)},
        pe \in {PyNone} \cup Floats({-500, 1000, 5000}),
        roe \in {PyNone} \cup Floats({3, 15, 25}),
        t \in {EmptyDict, Snapshot(PyFloat(7500), PyFloat(120), PyFloat(90)),
               Snapshot(PyFloat(2500), PyFloat(90), PyFloat(120))},
        r \in {EmptyList, YfRecommendations,
               PyList(<<Ratings(MaxVotes, 0, 0, 0, 0)>>),
               PyList(<<Ratings(0, 0, 0, 0, MaxVotes)>>)}}

\* one pillar over all its values, the others neutral
OnePillar ==
    {<<p, EmptyDict, EmptyDict, EmptyList>> : p \in PiotroskiScores}
    \cup {<<PyNone, KeyMetrics(pe, roe), EmptyDict, EmptyList>> :
            pe \in PeValues, roe \in RoeValues}
    \cup {<<PyNone, EmptyDict, EmptyDict, r>> : r \in RatingsLists}

OverallSentimentCalls ==
    {Pending("calculate_overall_sentiment", a) : a \in Extremes \cup OnePillar}

TechnicalSentimentCalls ==
    {Pending("calculate_technical_sentiment", <<t>>) :
        t \in {PyNone, EmptyDict, PyDict(<<KV("macd", PyFloat(120))>>)}
              \cup {Snapshot(rsi, macd, sig) :
                        rsi \in RsiValues, macd \in MacdValues, sig \in MacdValues}}

\* the provider fails, knows nothing, or serves some of its price fields
QuoteCalls ==
    {Pending("get_quote", <<info>>) :
        info \in {PyExc, EmptyDict}
                 \cup {Info(current, regular, previous) :
                        current \in {PyNone} \cup Floats({9500, 10700}),
                        regular \in {PyNone} \cup Floats({10800}),
                        previous \in {PyNone} \cup Floats({0, 10600})}}

\* the longest history handed to calculate_darvas_box
MaxBars == 31

\* the longest history handed to calculate_pivot_points
MaxPivotBars == 3

\* n quiet bars, with `bar` in the row `back` rows from the end
FrameWith(n, back, bar) ==
    Frame([i \in 1..n |-> IF i = n + 1 - back THEN bar ELSE QuietBar])

\* histories around the 30 bars required: quiet, or with one bar of a higher
\* high, a lower low or a far higher high, inside or outside the last 15
DarvasFrames ==
    {PyNone}
    \cup {FrameWith(n, back, bar) :
            n \in 29..MaxBars, back \in {1, 15, 16, 29},
            bar \in {QuietBar, Bar(11200, 10500, 10800), Bar(11000, 10300, 10800),
                     Bar(12000, 10500, 10800)}}

QuoteOf(price, year_high, volume, avg_volume) ==
    PyDict(<<KV("price", price), KV("yearHigh", year_high),
             KV("volume", volume), KV("avgVolume", avg_volume)>>)

\* no quote; prices around 90% of the year high and around the box, on a
\* volume at and above 1.5 x the average; a field missing or zero; a price
\* that is not a number
DarvasQuotes ==
    {PyNone, EmptyDict}
    \cup {QuoteOf(p, PyFloat(11500), v, PyInt(500)) :
            p \in Floats({10000, 10349, 10350, 10400, 10500, 10800, 11000, 11001,
                          11200, 11300}),
            v \in {PyInt(750), PyInt(751)}}
    \cup {QuoteOf(p, PyFloat(11500), PyInt(800), PyInt(500)) :
            p \in {PyNone, PyFloat(0), PyStr("108.00")}}
    \cup {QuoteOf(PyFloat(10800), f, PyInt(800), PyInt(500)) : f \in {PyNone, PyFloat(0)}}
    \cup {QuoteOf(PyFloat(10800), PyFloat(11500), f, PyInt(500)) : f \in {PyNone, PyInt(0)}}
    \cup {QuoteOf(PyFloat(10800), PyFloat(11500), PyInt(800), f) : f \in {PyNone, PyInt(0)}}

DarvasCalls ==
    {Pending("calculate_darvas_box", <<df, q, "USD">>) :
        df \in DarvasFrames, q \in DarvasQuotes}

PivotBars == {QuietBar, Bar(12000, 9000, 10500), Bar(10003, 9998, 10001)}

PivotFrames ==
    {PyNone}
    \cup {Frame(rows) : rows \in UNION {[1..n -> PivotBars] : n \in 0..MaxPivotBars}}

PivotCalls == {Pending("calculate_pivot_points", <<df>>) : df \in PivotFrames}

\* the windows of calculate_moving_averages and their keys in its result
Windows == {5, 10, 20, 50, 100, 200}

WindowKey ==
    (5 :> "5") @@ (10 :> "10") @@ (20 :> "20") @@ (50 :> "50")
    @@ (100 :> "100") @@ (200 :> "200")

\* a history of n bars whose close rises by 0.10 a bar
RisingFrame(n) ==
    Frame([i \in 1..n |-> Bar(10100 + 10 * i, 9900 + 10 * i, 10000 + 10 * i)])

\* no history, and histories one bar short of, at and one bar past each window
AverageFrames ==
    {PyNone, Frame(<<>>)}
    \cup {RisingFrame(n) : n \in UNION {{w - 1, w, w + 1} : w \in Windows}}

AverageCalls == {Pending("calculate_moving_averages", <<df>>) : df \in AverageFrames}

\* histories around the windows 14, 20, 26 and 28 of the indicators, each with
\* no df.ta call raising or with one of them raising
IndicatorCalls ==
    {Pending("calculate_technical_indicators", <<df, raising>>) :
        df \in {PyNone, Frame(<<>>)}
               \cup {PyFrame(n) : n \in {1, 13, 14, 19, 20, 25, 26, 27, 28}},
        raising \in {{}} \cup {{c} : c \in TaCalls}}

\* the longest history handed to calculate_support_resistance_levels
MaxLevelBars == 20

\* the rows of a history of n bars that may hold a dip or a spike
Slots(n) == <<3, 4, 8, 12, n - 3, n - 2>>

DipLow == <<9400, 9400, 9450, 9350, 9420, 9410>>

SpikeHigh == <<11400, 11400, 11350, 11450, 11380, 11390>>

\* a rising market of n bars, with a dip or a spike in the slots `shape`
\* names, closing at `close`
ShapedFrame(n, shape, close) ==
    Frame([i \in 1..n |->
        Bar(IF \E k \in 1..6 : Slots(n)[k] = i /\ shape[k] = "spike"
            THEN SpikeHigh[CHOOSE k \in 1..6 : Slots(n)[k] = i]
            ELSE 10200 + 10 * i,
            IF \E k \in 1..6 : Slots(n)[k] = i /\ shape[k] = "dip"
            THEN DipLow[CHOOSE k \in 1..6 : Slots(n)[k] = i]
            ELSE 10000 + 10 * i,
            IF i = n THEN close ELSE 10100 + 10 * i)])

\* dips alone, spikes alone, and the two taking turns
Shapes ==
    [1..6 -> {"", "dip"}] \cup [1..6 -> {"", "spike"}]
    \cup {<<"dip", "spike", "dip", "spike", "dip", "spike">>,
          <<"spike", "dip", "dip", "dip", "dip", "">>,
          <<"dip", "spike", "spike", "spike", "spike", "">>}

\* histories of 19 bars and more: quiet, or shaped and closing between, on,
\* below or above the levels
LevelFrames ==
    {PyNone}
    \cup {PyFrame(n) : n \in 19..MaxLevelBars}
    \cup {ShapedFrame(n, shape, close) :
            n \in 20..MaxLevelBars, shape \in Shapes, close \in {10300, 9400, 11400}}
    \cup {ShapedFrame(19, shape, 10300) : shape \in [1..6 -> {"dip"}]}

LevelCalls ==
    {Pending("calculate_support_resistance_levels", <<df>>) : df \in LevelFrames}

\* statement rows of a good year, of a weaker year, without figures and
\* with assets and liabilities of 0
IncomeRow(netIncome, revenue, grossProfit) ==
    PyDict(<<KV("netIncome", netIncome), KV("revenue", revenue),
             KV("grossProfit", grossProfit)>>)

BalanceRow(totalAssets, longTermDebt, currentAssets, currentLiabilities, shares) ==
    PyDict(<<KV("totalAssets", totalAssets), KV("longTermDebt", longTermDebt),
             KV("currentAssets", currentAssets),
             KV("currentLiabilities", currentLiabilities),
             KV("sharesOutstanding", shares)>>)

IncomeRows ==
    {IncomeRow(PyInt(10), PyInt(100), PyInt(40)),
     IncomeRow(PyInt(5), PyInt(90), PyInt(30)),
     IncomeRow(PyNone, PyNone, PyNone)}

BalanceRows ==
    {BalanceRow(PyInt(200), PyInt(50), PyInt(60), PyInt(30), PyInt(10)),
     BalanceRow(PyInt(200), PyInt(60), PyInt(50), PyInt(30), PyInt(10)),
     BalanceRow(PyInt(0), PyInt(0), PyInt(50), PyInt(0), PyNone),
     EmptyDict}

CashRows ==
    {PyDict(<<KV("operatingCashFlow", PyInt(15))>>),
     PyDict(<<KV("operatingCashFlow", PyNone)>>)}

\* the numbers of periods of the statements handed to the score
PeriodCounts == 0..2

Statements(rows) == {PyList(periods) : periods \in UNION {[1..n -> rows] : n \in PeriodCounts}}

PiotroskiCalls ==
    {Pending("calculate_piotroski_f_score", <<income, balance, cash_flow>>) :
        income \in Statements(IncomeRows), balance \in Statements(BalanceRows),
        cash_flow \in Statements(CashRows)}

(***************************************************************************)
(* routers/indices.py: the live price of an index.                         *)
(***************************************************************************)
\* an HTTPException(status_code, detail)
Http(status_code, detail) == Nd("http", detail, status_code, <<>>)

\* ticker.fast_info, as far as the handler reads it
FastInfo(last_price, previous_close) ==
    PyDict(<<KV("last_price", last_price), KV("previous_close", previous_close)>>)

\* yf.Ticker(index_symbol): fast_info is PyNone when the ticker has no such
\* attribute and PyExc when reading it raises; info is PyExc when reading
\* it raises
Ticker(fast_info, info) == PyDict(<<KV("fast_info", fast_info), KV("info", info)>>)

\* lines 104-106 and 116-118; a division by zero raises
price_answer(price, prev) ==
    IF ~IsNumber(price) \/ ~IsNumber(prev) \/ Hundredths(prev) = 0 THEN PyExc
    ELSE PyDict(<<
        KV("price", price),
        KV("change", PyFloat(Hundredths(price) - Hundredths(prev))),
        KV("changesPercentage",
           PyFloat(((Hundredths(price) - Hundredths(prev)) * 10000)
                   \div Hundredths(prev)))>>)

\* lines 108-118: the fallback on ticker.info; what it raises is returned
from_info(info) ==
    IF IsExc(info) THEN PyExc
    ELSE LET current_price == DictGet(info, "regularMarketPrice", PyNone)
             previous_close == DictGet(info, "previousClose", PyNone)
         IN IF IsNone(current_price) \/ IsNone(previous_close)
            THEN Http(404, "Live price not available.")
            ELSE price_answer(current_price, previous_close)

\* lines 96-118: the body of the try; what it raises is returned
live_price_of(ticker) ==
    IF IsExc(ticker) THEN PyExc
    ELSE LET fast_info == DictGet(ticker, "fast_info", PyNone)
         IN IF IsExc(fast_info) THEN PyExc
            ELSE IF ~IsNone(fast_info)
                    /\ Truthy(DictGet(fast_info, "last_price", PyNone))
                    /\ Truthy(DictGet(fast_info, "previous_close", PyNone))
            THEN price_answer(DictGet(fast_info, "last_price", PyNone),
                              DictGet(fast_info, "previous_close", PyNone))
            ELSE from_info(DictGet(ticker, "info", PyNone))

\* lines 119-120: `except Exception` catches whatever the body raised, the
\* HTTPException of line 114 included
except_Exception(raised) == Http(500, "Failed to fetch live price.")

get_index_live_price(ticker) ==
    IF IsDict(live_price_of(ticker)) THEN live_price_of(ticker)
    ELSE except_Exception(live_price_of(ticker))

Prices == {PyNone} \cup Floats({0, 10500})

Closes == {PyNone} \cup Floats({0, 10000})

Tickers ==
    {PyExc}
    \cup {Ticker(fast_info, info) :
            fast_info \in {PyNone, PyExc}
                          \cup {FastInfo(p, c) : p \in Prices, c \in Closes},
            info \in {PyExc, EmptyDict}
                     \cup {PyDict(<<KV("regularMarketPrice", p),
                                    KV("previousClose", c)>>) :
                              p \in Prices, c \in Closes}}

LivePriceCalls == {Pending("get_index_live_price", <<ticker>>) : ticker \in Tickers}

(***************************************************************************)
(* yahoo_service.get_analyst_recommendations.  A column label is the       *)
(* sequence of its characters, so that `name in col` is a real substring   *)
(* test; a row of the table is the sequence of its cells in column order.  *)
(***************************************************************************)
\* a text, one node per character
Text(chars) == Nd("text", "", 0, [i \in 1..Len(chars) |-> PyStr(chars[i])])

strongBuy == Text(<<"s", "t", "r", "o", "n", "g", "B", "u", "y">>)

buy == Text(<<"b", "u", "y">>)

hold == Text(<<"h", "o", "l", "d">>)

sell == Text(<<"s", "e", "l", "l">>)

strongSell == Text(<<"s", "t", "r", "o", "n", "g", "S", "e", "l", "l">>)

period == Text(<<"p", "e", "r", "i", "o", "d">>)

\* str.lower()
lower(text) ==
    Nd("text", "", 0,
       [i \in 1..Len(text.kids) |->
            IF text.kids[i] = PyStr("B") THEN PyStr("b")
            ELSE IF text.kids[i] = PyStr("S") THEN PyStr("s")
            ELSE text.kids[i]])

\* name in text
Contains(text, name) ==
    \E i \in 1..(Len(text.kids) - Len(name.kids) + 1) :
        SubSeq(text.kids, i, i + Len(name.kids) - 1) = name.kids

\* a cell of a row: the label of its column and its value
Cell(col, value) == Nd("cell", "", 0, <<col, value>>)

ColOf(cell) == cell.kids[1]

CountIn(cell) == cell.kids[2]

\* a row of the table (a pandas Series indexed by the column labels)
Series(cells) == Nd("series", "", 0, cells)

\* ticker.recommendations, the oldest row first
Table(rows) == Nd("table", "", 0, rows)

\* int(x): the conversion of NaN raises
int_of(value) == IF IsNonFinite(value) THEN PyExc ELSE value

\* lines 230-233: the first column, in the order of the table, whose label
\* contains the name
get_col(latest, name) ==
    LET hits == {i \in 1..Len(latest.kids) :
                    Contains(lower(ColOf(latest.kids[i])), lower(name))}
    IN IF hits = {} THEN PyInt(0)
       ELSE int_of(CountIn(latest.kids[CHOOSE i \in hits : \A j \in hits : i <= j]))

\* lines 235-241
ratings_of(latest) ==
    PyList(<<PyDict(<<
        KV("ratingStrongBuy", get_col(latest, strongBuy)),
        KV("ratingBuy", get_col(latest, buy)),
        KV("ratingHold", get_col(latest, hold)),
        KV("ratingSell", get_col(latest, sell)),
        KV("ratingStrongSell", get_col(latest, strongSell))>>)>>)

\* a rating none of whose counts raised
Converted(ratings) ==
    \A i \in 1..Len(ratings.kids[1].kids) :
        ~IsExc(ratings.kids[1].kids[i].kids[1])

\* lines 223-242; recs is PyExc when the provider raises, PyNone when it
\* has no table, and otherwise the rows of the table, the oldest first
get_analyst_recommendations(recs) ==
    IF IsExc(recs) THEN EmptyList
    ELSE IF IsNone(recs) \/ recs.kids = <<>> THEN EmptyList
    ELSE IF Converted(ratings_of(recs.kids[Len(recs.kids)]))
    THEN ratings_of(recs.kids[Len(recs.kids)])
    ELSE EmptyList

RatingColumns == {strongBuy, buy, hold, sell, strongSell}

\* the count each column of the latest row carries
CountOf(col) ==
    CASE col = strongBuy -> PyInt(5)
      [] col = buy -> PyInt(4)
      [] col = hold -> PyInt(3)
      [] col = sell -> PyInt(2)
      [] col = strongSell -> PyInt(1)
      [] OTHER -> PyStr("0m")

\* the orders of k of the rating columns
ColumnOrders(k) ==
    {order \in [1..k -> RatingColumns] :
        \A i, j \in 1..k : order[i] = order[j] => i = j}

\* a row: the period, then the rating columns in the given order
RowOf(order) ==
    Series(<<Cell(period, CountOf(period))>>
           \o [i \in 1..Len(order) |-> Cell(order[i], CountOf(order[i]))])

OlderRow == RowOf(<<buy, strongBuy, sell, strongSell, hold>>)

RecommendationTables ==
    {PyNone, PyExc, Table(<<>>),
     Table(<<OlderRow, Series(<<Cell(period, PyStr("0m")), Cell(hold, PyNaN)>>)>>)}
    \cup {Table(<<OlderRow, RowOf(order)>>) :
            order \in UNION {ColumnOrders(k) : k \in 0..Cardinality(RatingColumns)}}

RecommendationCalls ==
    {Pending("get_analyst_recommendations", <<recs>>) : recs \in RecommendationTables}

AllCalls ==
    RecommendationCalls \cup LivePriceCalls \cup CleanNansCalls \cup OverallSentimentCalls \cup TechnicalSentimentCalls
    \cup QuoteCalls \cup DarvasCalls \cup PivotCalls \cup AverageCalls
    \cup IndicatorCalls \cup LevelCalls \cup PiotroskiCalls

InitCalls ==
    /\ symbol = Sym("AAPL", "")
    /\ outcome = Baseline("valid", "valid")
    /\ pc = "idle"
    /\ queue = <<>>
    /\ running = {}
    /\ raw_data = <<>>
    /\ answers = NoAnswers
    /\ final_data = EmptyDict
    /\ assigned = <<>>
    /\ fetch_log = <<>>
    /\ response = PyNone
    /\ call \in AllCalls

\* the call of `fn` returns `value`
Returns(fn, value) ==
    /\ call.fn = fn
    /\ ~call.done
    /\ call' = [call EXCEPT !.done = TRUE, !.result = value]
    /\ UNCHANGED <<symbol, outcome, pc, queue, running, raw_data, answers,
                   final_data, assigned, fetch_log, response>>

CallCleanNans == Returns("clean_nans", clean_nans(call.args[1]))

CallOverallSentiment ==
    Returns("calculate_overall_sentiment",
            calculate_overall_sentiment(call.args[1], call.args[2],
                                        call.args[3], call.args[4]))

CallTechnicalSentiment ==
    Returns("calculate_technical_sentiment",
            calculate_technical_sentiment(call.args[1]))

CallGetQuote == Returns("get_quote", get_quote(call.args[1]))

CallDarvasBox ==
    Returns("calculate_darvas_box",
            calculate_darvas_box(call.args[1], call.args[2], call.args[3]))

CallPivotPoints ==
    Returns("calculate_pivot_points", calculate_pivot_points(call.args[1]))

CallMovingAverages ==
    Returns("calculate_moving_averages", calculate_moving_averages(call.args[1]))

CallTechnicalIndicators ==
    Returns("calculate_technical_indicators",
            technical_indicators_when(call.args[1], call.args[2]))

CallSupportResistance ==
    Returns("calculate_support_resistance_levels",
            calculate_support_resistance_levels(call.args[1]))

CallPiotroski ==
    Returns("calculate_piotroski_f_score",
            calculate_piotroski_f_score(call.args[1], call.args[2], call.args[3]))

CallIndexLivePrice ==
    Returns("get_index_live_price", get_index_live_price(call.args[1]))

CallAnalystRecommendations ==
    Returns("get_analyst_recommendations",
            get_analyst_recommendations(call.args[1]))

NextCalls ==
    \/ CallAnalystRecommendations
    \/ CallIndexLivePrice
    \/ CallPiotroski
    \/ CallSupportResistance
    \/ CallTechnicalIndicators
    \/ CallMovingAverages
    \/ CallCleanNans
    \/ CallDarvasBox
    \/ CallPivotPoints
    \/ CallGetQuote
    \/ CallOverallSentiment
    \/ CallTechnicalSentiment

SpecCalls == InitCalls /\ [][NextCalls]_vars

\* the finished call of `fn`
Called(fn) == call.fn = fn /\ call.done

\* a number between lo and hi hundredths
Within(v, lo, hi) ==
    IsNumber(v) /\ ~IsNaN(v) /\ lo <= Hundredths(v) /\ Hundredths(v) <= hi

\* the score of a pillar in the result of calculate_overall_sentiment
Pillar(k) ==
    DictGet(DictGet(DictGet(call.result, "breakdown", PyNone), k, PyNone),
            "score", PyNone)

Pillars == {"fundamental", "financial", "analyst", "technical"}

OverallScore == DictGet(call.result, "score", PyNone)


(***************************************************************************)
(* What the properties below speak of.                                     *)
(***************************************************************************)
\* final_data[key] once the handler has returned
Merged(key) == DictGet(final_data, key, PyNone)

\* the answers obtained from a secondary fetch during the request: the one
\* of the batch and the one awaited after the join
Obtained(task) ==
    (IF task \in DOMAIN raw_data THEN {raw_data[task]} ELSE {})
        \cup (IF task \in LazyFetches /\ answers[task] # "unasked"
              THEN {answers[task]} ELSE {})

\* the primary fetch returned nothing
PrimaryEmpty(task) == raw_data[task] \in {"none", "empty"}

\* the primary fetch returned nothing or raised
PrimaryAbsent(task) == raw_data[task] \in {"raise", "none", "empty"}

\* the secondary fetch was made and every answer it gave carries data
SecondaryValid(task) == Obtained(task) = {"valid"}

\* no answer of the secondary fetch carries data
SecondaryAbsent(task) == Obtained(task) \subseteq {"empty"}

\* a profile with the key written by line 478
Tagged(profile) ==
    DictSet(profile, "tradingview_symbol", PyStr(TvSymbol(symbol)))

Statement(key, primary, secondary, part) ==
    [key |-> key, primary |-> primary, secondary |-> secondary, part |-> part]

\* the six statement sequences: their key in the response, their primary
\* task, their secondary fetch and the part of its answer they come from
StatementCategories ==
    {Statement("annual_revenue_and_profit", "fmp_income_5y",
               "yf_historical_financials", "income"),
     Statement("annual_balance_sheets", "fmp_balance_5y",
               "yf_historical_financials", "balance"),
     Statement("annual_cash_flow_statements", "fmp_cash_flow_5y",
               "yf_historical_financials", "cash_flow"),
     Statement("quarterly_income_statements", "fmp_quarterly_income",
               "yf_quarterly_financials", "income"),
     Statement("quarterly_balance_sheets", "fmp_quarterly_balance",
               "yf_quarterly_financials", "balance"),
     Statement("quarterly_cash_flow_statements", "fmp_quarterly_cash_flow",
               "yf_quarterly_financials", "cash_flow")}

\* the keys of the mapping the handler returns
ResponseKeys ==
    {c.key : c \in StatementCategories}
        \cup {"profile", "quote", "key_metrics", "piotroski_f_score",
              "graham_scan", "technical_indicators", "darvas_scan",
              "moving_averages", "pivot_points", "overall_sentiment",
              "shareholding_breakdown", "shareholding", "news",
              "analyst_ratings", "price_target_consensus", "keyStats"}

\* the entries of fetch_log for a fetch in a phase
Entries(name, phase) ==
    {i \in 1..Len(fetch_log) :
        fetch_log[i].fetch = name /\ fetch_log[i].phase = phase}

StatementFetches == {"yf_historical_financials", "yf_quarterly_financials"}

RECURSIVE HasNonFinite(_)
\* a NaN or an infinity somewhere in the value
HasNonFinite(v) ==
    \/ IsNonFinite(v)
    \/ \E i \in 1..Len(v.kids) : HasNonFinite(v.kids[i])

RECURSIVE Nulled(_, _)
\* out is v with null in the place of every non-finite float, and nothing
\* else changed
Nulled(v, out) ==
    IF IsNonFinite(v) THEN IsNone(out)
    ELSE /\ out.t = v.t /\ out.s = v.s /\ out.n = v.n
         /\ Len(out.kids) = Len(v.kids)
         /\ \A i \in 1..Len(v.kids) : Nulled(v.kids[i], out.kids[i])


(***************************************************************************)
(* The properties.                                                         *)
(***************************************************************************)
\* C1: for each category on its own (profile, quote, each of the six
\* statement sequences, shareholding), when the primary result is empty and
\* the secondary result is valid, the merged value is the secondary's data.
\* The code does not do this for a statement sequence whose primary result
\* is empty while the primary annual income is valid.
C1_FallbackPerCategory ==
    pc = "done" =>
        /\ (PrimaryEmpty("fmp_profile") /\ SecondaryValid("yf_profile")
                => Merged("profile") = Tagged(YfProfile))
        /\ (PrimaryEmpty("fmp_quote") /\ SecondaryValid("yf_quote")
                => Merged("quote") = YfQuote)
        /\ \A c \in StatementCategories :
                PrimaryEmpty(c.primary) /\ SecondaryValid(c.secondary)
                    => Merged(c.key) = DictGet(Valid(c.secondary), c.part, PyNone)
        /\ (PrimaryEmpty("shareholding") /\ SecondaryValid("yf_shareholding")
                => Merged("shareholding_breakdown") = YfShareholding)

\* C2: profile and quote taken independently: when the primary profile is
\* non-empty the merged profile is the primary's, and when the primary quote
\* carries a price the merged quote is the primary's, whatever the other
\* category's primary fetch did.  The code decides both by one test.
C2_PrimaryPrecedencePerCategory ==
    pc = "done" =>
        /\ (raw_data["fmp_profile"] = "valid"
                => Merged("profile") = Tagged(FmpProfile))
        /\ (raw_data["fmp_quote"] = "valid" => Merged("quote") = FmpQuote)

\* the categories whose primary and secondary results are both absent have
\* their structural default in the response; profile_default is the default
\* of the profile
DefaultsWhenAbsent(profile_default) ==
    pc = "done" =>
        /\ (PrimaryAbsent("fmp_profile") /\ SecondaryAbsent("yf_profile")
                => DictGet(response, "profile", PyNone) = profile_default)
        /\ (PrimaryAbsent("fmp_quote") /\ SecondaryAbsent("yf_quote")
                => DictGet(response, "quote", PyNone) = EmptyDict)
        /\ (PrimaryAbsent("fmp_key_metrics") /\ SecondaryAbsent("yf_key_fundamentals")
                => DictGet(response, "key_metrics", PyNone) = EmptyDict)
        /\ \A c \in StatementCategories :
                PrimaryAbsent(c.primary) /\ SecondaryAbsent(c.secondary)
                    => DictGet(response, c.key, PyNone) = EmptyList
        /\ (PrimaryAbsent("shareholding") /\ SecondaryAbsent("yf_shareholding")
                => /\ DictGet(response, "shareholding", PyNone) = EmptyList
                   /\ DictGet(response, "shareholding_breakdown", PyNone) = EmptyDict)
        /\ (PrimaryAbsent("news")
                => DictGet(response, "news", PyNone) = EmptyList)
        /\ (SecondaryAbsent("yf_recommendations")
                => DictGet(response, "analyst_ratings", PyNone) = EmptyList)
        /\ (SecondaryAbsent("yf_price_target")
                => DictGet(response, "price_target_consensus", PyNone) = EmptyDict)

\* C3 as stated: when both results of a category are empty or failed, the
\* response holds the category's key with its structural default: the empty
\* list for the statement sequences, shareholding, news and analyst_ratings,
\* the empty mapping for the profile and the other object-typed categories.
C3_StructuralDefault == DefaultsWhenAbsent(EmptyDict)

\* C3 amended: the same, except that the default of the profile is the
\* mapping that holds the tradingview_symbol key alone.
C3_StructuralDefaultTagged == DefaultsWhenAbsent(Tagged(EmptyDict))

\* every category has both results absent and the handler has returned
C3_Witness ==
    /\ pc = "done"
    /\ \A t \in PrimaryTasks : raw_data[t] \in {"raise", "none", "empty"}
    /\ \A t \in SecondaryTasks : SecondaryAbsent(t)
    /\ raw_data["news"] = "none"

\* C4: for every task of the batch that raised, the response is the one the
\* handler gives when that task returns its empty result (None, the empty
\* list, the empty mapping) and every other result is the same; and the
\* exception never leaves the handler.
C4_RaiseIsEmpty ==
    /\ pc # "failed"
    /\ pc = "done" =>
        \A t \in DOMAIN raw_data :
            raw_data[t] = "raise" =>
                \A e \in Empties(t) :
                    Respond(symbol, [raw_data EXCEPT ![t] = e], answers)
                        = [ok |-> TRUE, body |-> response]

\* a task raised among tasks that returned data, and the handler returned
C4_Witness ==
    /\ pc = "done"
    /\ raw_data["fmp_quarterly_balance"] = "raise"
    /\ raw_data["fmp_income_5y"] = "valid"
    /\ raw_data["fmp_profile"] = "valid"

\* C5: no failure of a task aborts the batch: once the handler is past the
\* join it holds one outcome for every task dispatched, under every order of
\* completion; no key of final_data is written before every task of the
\* batch has resolved; each key of the response was assigned exactly once.
C5_JoinCollectsAll ==
    /\ pc \notin {"start", "gather"} =>
            /\ DOMAIN raw_data = Batch
            /\ queue = <<>>
    /\ assigned # <<>> => DOMAIN raw_data = Batch
    /\ pc # "failed"
    /\ \A i, j \in 1..Len(assigned) : assigned[i] = assigned[j] => i = j
    /\ pc = "done" => Keys(response) = Range(assigned)

\* the handler returned after a batch in which tasks raised
C5_Witness ==
    /\ pc = "done"
    /\ \E t \in Batch : raw_data[t] = "raise"
    /\ Len(assigned) = Cardinality(ResponseKeys)

\* C6: whatever the tasks do (data, nothing, an exception), all of them
\* failing included, the handler returns a mapping with every key of the
\* response and never ends in an error: no failure of a task produces the
\* HTTP 500 of the batch.
C6_AlwaysResponds ==
    /\ pc # "failed"
    /\ pc = "done" => IsDict(response) /\ Keys(response) = ResponseKeys

\* every primary task raised, every secondary fetch came back empty, and the
\* handler returned
C6_Witness ==
    /\ pc = "done"
    /\ \A t \in PrimaryTasks : raw_data[t] = "raise"
    /\ \A t \in DOMAIN raw_data \ PrimaryTasks : raw_data[t] = "empty"

\* C7: for an international symbol the secondary fetches of profile, quote,
\* key fundamentals, shareholding, annual and quarterly financials are in
\* the batch, issued before any result is known, and no secondary fetch of
\* profile, quote, statements or shareholding is issued after the join.
C7_InternationalEager ==
    is_international =>
        /\ pc # "start" =>
            \A t \in Range(BackupTasks) :
                \E i \in Entries(t, "batch") : fetch_log[i].known = 0
        /\ \A t \in {"yf_profile", "yf_quote", "yf_shareholding"}
                        \cup StatementFetches :
                Entries(t, "lazy") = {}

\* an international request in which every fallback was needed has returned
C7_Witness ==
    /\ is_international
    /\ pc = "done"
    /\ UseSecondaryProfileQuote(raw_data)
    /\ ~is_valid_financials(fmp_inc(raw_data))
    /\ ~Truthy(fmp_hold(raw_data))

\* C8: for a default-exchange symbol the secondary key-fundamentals and
\* shareholding fetches are in the batch; the secondary statement fetches
\* are not, and each is issued only after the join and only when the
\* primary annual income fails is_valid_financials.
C8_DefaultExchangeLazy ==
    ~is_international =>
        /\ pc # "start" =>
            \A t \in Range(SafeFallbackTasks) :
                \E i \in Entries(t, "batch") : fetch_log[i].known = 0
        /\ \A t \in StatementFetches :
            /\ Entries(t, "batch") = {}
            /\ \A i \in Entries(t, "lazy") :
                /\ fetch_log[i].known = Cardinality(Batch)
                /\ DOMAIN raw_data = Batch
                /\ ~is_valid_financials(fmp_inc(raw_data))

\* a default-exchange request has issued both statement fetches after the
\* join and returned
C8_Witness ==
    /\ ~is_international
    /\ pc = "done"
    /\ \A t \in StatementFetches : Entries(t, "lazy") # {}

\* C9: within a request no fetch is issued twice: each (category, provider)
\* pair is fetched once, for every symbol and whatever the earlier fetches
\* gave.  The code calls get_shareholding_summary and get_historical_data a
\* second time.
C9_OneFetchPerPair ==
    \A i, j \in 1..Len(fetch_log) :
        fetch_log[i].fetch = fetch_log[j].fetch => i = j

\* C10: the value returned holds no NaN and no infinity at any depth: it is
\* final_data with null in the place of every such float.
C10_NoNonFinite ==
    pc = "done" => ~HasNonFinite(response) /\ Nulled(final_data, response)

\* the assembled data held non-finite floats in provider data (inside a list
\* and inside a mapping) and in an indicator value
C10_Witness ==
    /\ pc = "done"
    /\ HasNonFinite(Merged("annual_revenue_and_profit"))
    /\ HasNonFinite(Merged("profile"))
    /\ IsNaN(DictGet(Merged("technical_indicators"), "adx", PyNone))

\* C11: clean_nans is idempotent, and it preserves the structure: its
\* result differs from its argument only by null in the place of each
\* non-finite float; every finite number, string, boolean and null, the keys
\* of every mapping and the length and order of every list are unchanged.
C11_CleanNansIdempotent ==
    Called("clean_nans") =>
        /\ clean_nans(call.result) = call.result
        /\ Nulled(call.args[1], call.result)

\* clean_nans has returned from a mapping that holds an infinite float and
\* a list of an infinite float and a boolean
C11_Witness ==
    /\ Called("clean_nans")
    /\ call.args[1] = PyDict(<<KV("a", PyList(<<PyInf, PyBool(TRUE)>>)),
                               KV("b", PyInf)>>)
    /\ call.result = PyDict(<<KV("a", PyList(<<PyNone, PyBool(TRUE)>>)),
                              KV("b", PyNone)>>)

\* C12: the score of calculate_overall_sentiment lies in [0,100] and is the
\* arithmetic mean of the four pillar scores, each of which lies in [0,100],
\* for every Piotroski score in 0..9 or none, every P/E and return or none,
\* every set of analyst counts and every technical snapshot.
C12_ScoreIsMeanInRange ==
    Called("calculate_overall_sentiment") =>
        /\ \A k \in Pillars : Within(Pillar(k), 0, 10000)
        /\ Within(OverallScore, 0, 10000)
        /\ Hundredths(OverallScore) =
              (Hundredths(Pillar("fundamental")) + Hundredths(Pillar("financial"))
               + Hundredths(Pillar("analyst")) + Hundredths(Pillar("technical")))
              \div 4

\* the call with the best of every pillar: (100 + 100 + 100 + 82.5) / 4
C12_Witness ==
    /\ Called("calculate_overall_sentiment")
    /\ call.args[1] = PyInt(9)
    /\ Pillar("financial") = PyFloat(10000)
    /\ Pillar("technical") = PyFloat(8250)
    /\ OverallScore = PyFloat(9562)

Verdict == DictGet(call.result, "verdict", PyNone)

Verdicts == {"Strong Buy", "Buy", "Neutral", "Sell", "Strong Sell"}

\* the verdict the thresholds give to a score of x hundredths
VerdictFor(x) ==
    CASE x >= 7500 -> "Strong Buy"
      [] 6000 <= x /\ x < 7500 -> "Buy"
      [] x <= 2500 -> "Strong Sell"
      [] 2500 < x /\ x <= 4000 -> "Sell"
      [] 4000 < x /\ x < 6000 -> "Neutral"

\* C13: the verdict is a function of the overall score with inclusive
\* thresholds: >= 75 Strong Buy, 60 <= score < 75 Buy, <= 25 Strong Sell,
\* 25 < score <= 40 Sell, 40 < score < 60 Neutral; exactly one applies.
C13_VerdictByThreshold ==
    Called("calculate_overall_sentiment") =>
        /\ Verdict.s \in Verdicts
        /\ Verdict = PyStr(VerdictFor(Hundredths(OverallScore)))

\* a score of exactly 75 has the verdict Strong Buy
C13_Witness ==
    /\ Called("calculate_overall_sentiment")
    /\ OverallScore = PyFloat(7500)
    /\ Verdict = PyStr("Strong Buy")

\* the P/E and the return on capital handed to calculate_overall_sentiment
Pe == DictGet(call.args[2], "peRatioTTM", PyNone)

Roe == DictGet(call.args[2], "returnOnCapitalEmployedTTM", PyNone)

\* v is the valuation score the table gives to the P/E
ValuationIs(pe, v) ==
    /\ IsNone(pe) => v = 50
    /\ GtC(pe, 0) /\ LtC(pe, 1500) => v = 100
    /\ GtC(pe, 1499) /\ LtC(pe, 2500) => v = 75
    /\ GtC(pe, 2499) /\ LtC(pe, 4000) => v = 40
    /\ GtC(pe, 3999) => v = 20
    /\ LeC(pe, 0) => v = 10

\* e is the efficiency score the table gives to the return
EfficiencyIs(roe, e) ==
    e = CASE IsNone(roe) -> 50
          [] GtC(roe, 20) -> 100
          [] GtC(roe, 12) -> 75
          [] GtC(roe, 5) -> 50
          [] OTHER -> 25

\* C14: the financial score is 0.6 x valuation + 0.4 x efficiency;
\* valuation is 100 for 0 < P/E < 15, 75 for 15 <= P/E < 25, 40 for
\* 25 <= P/E < 40, 20 for P/E >= 40, 10 for P/E <= 0, 50 without a P/E;
\* efficiency is 100 for a return > 0.20, 75 for > 0.12, 50 for > 0.05,
\* 25 otherwise, 50 without a return.
C14_FinancialBlend ==
    Called("calculate_overall_sentiment") =>
        \E v \in {10, 20, 40, 50, 75, 100}, e \in {25, 50, 75, 100} :
            /\ ValuationIs(Pe, v)
            /\ EfficiencyIs(Roe, e)
            /\ Pillar("financial") = PyFloat(60 * v + 40 * e)

\* a P/E of exactly 15 with a return of exactly 0.12: 0.6 x 75 + 0.4 x 50
C14_Witness ==
    /\ Called("calculate_overall_sentiment")
    /\ Pe = PyFloat(1500)
    /\ Roe = PyFloat(12)
    /\ Pillar("financial") = PyFloat(6500)

\* the first entry of the ratings handed to calculate_overall_sentiment
Latest == call.args[4].kids[1]

NoRatings == ~IsList(call.args[4]) \/ Len(call.args[4].kids) = 0

Count(k) == IF HasKey(Latest, k) THEN DictGet(Latest, k, PyNone).n ELSE 0

TotalVotes ==
    Count("ratingStrongBuy") + Count("ratingBuy") + Count("ratingHold")
    + Count("ratingSell") + Count("ratingStrongSell")

\* C15: the analyst score is the average of the weights StrongBuy=100,
\* Buy=75, Hold=50, Sell=25, StrongSell=0 over the votes of the first entry
\* of the ratings; it is 50 when the list is empty or holds no vote, and no
\* division by zero occurs.
C15_AnalystWeightedAverage ==
    Called("calculate_overall_sentiment") =>
        /\ ~IsExc(Pillar("analyst"))
        /\ IF NoRatings \/ TotalVotes = 0
           THEN Hundredths(Pillar("analyst")) = 5000
           ELSE Hundredths(Pillar("analyst")) =
                    ((100 * Count("ratingStrongBuy") + 75 * Count("ratingBuy")
                      + 50 * Count("ratingHold") + 25 * Count("ratingSell")) * 100)
                    \div TotalVotes

\* two Strong Buy and one Buy in the first entry, before an older entry of
\* one Strong Sell: (200 + 75) / 3
C15_Witness ==
    /\ Called("calculate_overall_sentiment")
    /\ call.args[4] = PyList(<<Ratings(2, 1, 0, 0, 0), Ratings(0, 0, 0, 0, 1)>>)
    /\ Pillar("analyst") = PyFloat(9166)

\* the snapshot handed to calculate_technical_sentiment, and its fields
Technicals == call.args[1]

Rsi == DictGet(Technicals, "rsi", PyNone)

Macd == DictGet(Technicals, "macd", PyNone)

MacdSignal == DictGet(Technicals, "macdsignal", PyNone)

\* the RSI score of the tiers 70 / 60 / 50 / 40 / 30
RsiTier(rsi) ==
    CASE IsNone(rsi) -> 50
      [] GtC(rsi, 7000) -> 85
      [] GtC(rsi, 6000) /\ LeC(rsi, 7000) -> 75
      [] GtC(rsi, 5000) /\ LeC(rsi, 6000) -> 60
      [] LtC(rsi, 3000) -> 35
      [] GtC(rsi, 2999) /\ LtC(rsi, 4000) -> 40
      [] OTHER -> 45

MacdTrend(macd, macd_signal) ==
    CASE IsNone(macd) \/ IsNone(macd_signal) -> 50
      [] Gt(macd, macd_signal) -> 80
      [] OTHER -> 20

TechnicalScore(result) == Hundredths(DictGet(result, "score", PyNone))

\* C16: calculate_technical_sentiment returns the average of an RSI score
\* (85 above 70, 75 above 60, 60 above 50, 35 below 30, 40 below 40, 45
\* otherwise, 50 without an RSI) and a MACD score (80 when MACD is above its
\* signal, 20 otherwise, 50 when either is missing); an empty snapshot gives
\* 50 and Neutral; the score does not decrease when the RSI grows.
C16_TechnicalScore ==
    Called("calculate_technical_sentiment") =>
        IF IsNone(Technicals) \/ Technicals = EmptyDict
        THEN call.result = Scored(PyInt(50), "Neutral")
        ELSE /\ 2 * TechnicalScore(call.result) =
                    100 * (RsiTier(Rsi) + MacdTrend(Macd, MacdSignal))
             /\ \A higher \in RsiValues :
                    IsNumber(Rsi) /\ Gt(higher, Rsi) =>
                        TechnicalScore(calculate_technical_sentiment(
                            Snapshot(higher, Macd, MacdSignal)))
                        >= TechnicalScore(call.result)

\* an RSI of exactly 70 under a MACD above its signal: (75 + 80) / 2
C16_Witness ==
    /\ Called("calculate_technical_sentiment")
    /\ Rsi = PyFloat(7000)
    /\ Gt(Macd, MacdSignal)
    /\ call.result = Scored(PyFloat(7750), "Bullish")

\* a field of the quote get_quote has returned
QuoteField(k) == DictGet(call.result, k, PyNone)

\* C17: in every quote of get_quote, change is price - previousClose when
\* both are present, changesPercentage is change / previousClose x 100, and
\* changesPercentage is null when previousClose is 0 or absent.
\* get_quote returns 0.0, not null, for a previousClose that is 0 or absent.
C17_QuoteChange ==
    Called("get_quote") /\ call.result # EmptyDict =>
        /\ ~IsNone(QuoteField("price")) /\ ~IsNone(QuoteField("previousClose"))
            => Hundredths(QuoteField("change")) =
                 Hundredths(QuoteField("price"))
                 - Hundredths(QuoteField("previousClose"))
        /\ Truthy(QuoteField("previousClose"))
            => Hundredths(QuoteField("changesPercentage")) =
                 (Hundredths(QuoteField("change")) * 10000)
                 \div Hundredths(QuoteField("previousClose"))
        /\ ~Truthy(QuoteField("previousClose"))
            => IsNone(QuoteField("changesPercentage"))

\* the arguments and the result of a call of calculate_darvas_box
HistDf_ == call.args[1]

Quote_ == call.args[2]

QuoteNumber(k) == Hundredths(DictGet(Quote_, k, PyNone))

BoxStatus == DictGet(call.result, "status", PyNone).s

BoxField(k) == Hundredths(DictGet(call.result, k, PyNone))

\* the highs and the lows of the last 15 bars
Last15 == {i \in 1..HistDf_.n : i > HistDf_.n - 15}

MaxHigh == Highest({Hundredths(High(HistDf_.kids[i])) : i \in Last15})

MinLow == Lowest({Hundredths(Low(HistDf_.kids[i])) : i \in Last15})

\* the first gate: 30 bars and a quote
HasData == ~IsNone(HistDf_) /\ HistDf_.n >= 30 /\ Truthy(Quote_)

\* the second gate: price, yearHigh, avgVolume and volume present, not zero
HasFields ==
    \A k \in {"price", "yearHigh", "avgVolume", "volume"} :
        IsNumber(DictGet(Quote_, k, PyNone)) /\ QuoteNumber(k) # 0

Candidate == QuoteNumber("price") * 100 >= QuoteNumber("yearHigh") * 90

BoxFormed == MaxHigh * 100 <= MinLow * 108

PassesGates == HasData /\ HasFields /\ Candidate /\ BoxFormed

\* C18: past its rejection gates calculate_darvas_box returns as box_top the
\* highest high and as box_bottom the lowest low of the last 15 bars, and
\* exactly one of: Breakout! / Pass iff price > box_top, tagged high volume
\* iff volume > 1.5 x avgVolume; Breakdown / Fail iff price < box_bottom;
\* In Box / Neutral iff box_bottom <= price <= box_top.  Highs up to 110,
\* lows down to 105, price 108 and year high 115 give In Box, 110, 105.
C18_BoxClassification ==
    Called("calculate_darvas_box") /\ PassesGates =>
        /\ BoxField("box_top") = MaxHigh
        /\ BoxField("box_bottom") = MinLow
        /\ call.result =
            Box(IF QuoteNumber("price") > MaxHigh THEN "Breakout!"
                ELSE IF QuoteNumber("price") < MinLow THEN "Breakdown"
                ELSE "In Box",
                IF QuoteNumber("price") > MaxHigh THEN "Pass"
                ELSE IF QuoteNumber("price") < MinLow THEN "Fail"
                ELSE "Neutral",
                PyFloat(MaxHigh), PyFloat(MinLow),
                IF QuoteNumber("price") <= MaxHigh THEN ""
                ELSE IF QuoteNumber("volume") * 10 > QuoteNumber("avgVolume") * 15
                THEN "on high volume" ELSE "on average volume")

\* the example: highs of 110 and lows of 105, with a higher high just
\* outside the last 15 bars, a price of 108 under a year high of 115
C18_Witness ==
    /\ Called("calculate_darvas_box")
    /\ HistDf_ = FrameWith(30, 16, Bar(11200, 10500, 10800))
    /\ QuoteNumber("price") = 10800
    /\ QuoteNumber("yearHigh") = 11500
    /\ call.result = Box("In Box", "Neutral", PyFloat(11000), PyFloat(10500), "")

\* C19: calculate_darvas_box never raises and rejects in this order: fewer
\* than 30 bars or no quote, Insufficient Data; a price, yearHigh, avgVolume
\* or volume missing or zero, Insufficient Data; price < 0.90 x yearHigh, Not
\* a Candidate (a price of exactly 0.90 x yearHigh is a candidate); box_top >
\* 1.08 x box_bottom, No Box Formed.  A result that carries the box has
\* box_top <= 1.08 x box_bottom and price >= 0.90 x yearHigh.
C19_RejectionOrder ==
    Called("calculate_darvas_box") =>
        /\ IsDict(call.result)
        /\ ~HasData => BoxStatus = "Insufficient Data"
        /\ HasData /\ (\E k \in {"price", "yearHigh", "avgVolume", "volume"} :
                            ~Truthy(DictGet(Quote_, k, PyNone)))
            => BoxStatus = "Insufficient Data"
        /\ HasData /\ HasFields /\ ~Candidate => BoxStatus = "Not a Candidate"
        /\ HasData /\ HasFields /\ Candidate /\ ~BoxFormed
            => BoxStatus = "No Box Formed"
        /\ HasKey(call.result, "box_top")
            => /\ BoxField("box_top") * 100 <= BoxField("box_bottom") * 108
               /\ Candidate

\* a price of exactly 90% of the year high is placed against the box
C19_Witness ==
    /\ Called("calculate_darvas_box")
    /\ QuoteNumber("price") = 10350
    /\ QuoteNumber("yearHigh") = 11500
    /\ BoxStatus = "Breakdown"
    /\ HasKey(call.result, "box_top")

\* the history handed to calculate_pivot_points and its second-to-last bar
PivotDf == call.args[1]

H_ == Hundredths(High(PivotDf.kids[PivotDf.n - 1]))

L_ == Hundredths(Low(PivotDf.kids[PivotDf.n - 1]))

C_ == Hundredths(Close(PivotDf.kids[PivotDf.n - 1]))

\* a level of the result, in hundredths
Level(kind, k) ==
    Hundredths(DictGet(DictGet(call.result, kind, PyNone), k, PyNone))

\* x is p / q, rounded to a whole number of hundredths
IsQuotient(x, p, q) == q * x <= p /\ p < q * (x + 1)

\* the levels r and s lie x above and below the base
Around(kind, r, s, base, x) ==
    Level(kind, r) = base + x /\ Level(kind, s) = base - x

\* C20: calculate_pivot_points reads the high H, low L and close C of the
\* second-to-last bar and of no other bar: classic pp = (H+L+C)/3,
\* r1 = 2pp - L, s1 = 2pp - H, r2 = pp + (H-L), s2 = pp - (H-L); Fibonacci
\* pp +/- 0.382, 0.618 and 1.0 x (H-L); Camarilla C +/- (H-L) x 1.1 / 12, 6
\* and 4.  A history of fewer than 2 bars gives an empty mapping.
C20_PivotsOfPreviousBar ==
    Called("calculate_pivot_points") =>
        IF IsNone(PivotDf) \/ PivotDf.n < 2 THEN call.result = EmptyDict
        ELSE
          /\ IsQuotient(Level("classic", "pp"), H_ + L_ + C_, 3)
          /\ Level("classic", "r1") = 2 * Level("classic", "pp") - L_
          /\ Level("classic", "s1") = 2 * Level("classic", "pp") - H_
          /\ Around("classic", "r2", "s2", Level("classic", "pp"), H_ - L_)
          /\ Level("fibonacci", "pp") = Level("classic", "pp")
          /\ \E x \in 0..(H_ - L_) :
                /\ IsQuotient(x, 382 * (H_ - L_), 1000)
                /\ Around("fibonacci", "r1", "s1", Level("classic", "pp"), x)
          /\ \E x \in 0..(H_ - L_) :
                /\ IsQuotient(x, 618 * (H_ - L_), 1000)
                /\ Around("fibonacci", "r2", "s2", Level("classic", "pp"), x)
          /\ Around("fibonacci", "r3", "s3", Level("classic", "pp"), H_ - L_)
          /\ \E x \in 0..(H_ - L_) :
                /\ IsQuotient(x, 11 * (H_ - L_), 120)
                /\ Around("camarilla", "r1", "s1", C_, x)
          /\ \E x \in 0..(H_ - L_) :
                /\ IsQuotient(x, 11 * (H_ - L_), 60)
                /\ Around("camarilla", "r2", "s2", C_, x)
          /\ \E x \in 0..(H_ - L_) :
                /\ IsQuotient(x, 11 * (H_ - L_), 40)
                /\ Around("camarilla", "r3", "s3", C_, x)
          /\ \A other \in PivotFrames :
                (~IsNone(other) /\ other.n >= 2
                    /\ other.kids[other.n - 1] = PivotDf.kids[PivotDf.n - 1])
                => calculate_pivot_points(other) = call.result

\* three different bars, the second-to-last with high 120, low 90, close 105
C20_Witness ==
    /\ Called("calculate_pivot_points")
    /\ PivotDf = Frame(<<QuietBar, Bar(12000, 9000, 10500), Bar(10003, 9998, 10001)>>)
    /\ Level("classic", "pp") = 10500
    /\ Level("fibonacci", "r1") = 11646
    /\ Level("camarilla", "s1") = 10225

\* the number of bars of the history handed to the call
BarsGiven == IF IsNone(call.args[1]) THEN 0 ELSE call.args[1].n

\* the moving average of window w in the result, None when it is left out
Sma(w) == DictGet(call.result, WindowKey[w], PyNone)

\* C21: calculate_moving_averages gates each window on its own: the SMA of
\* window w is a number whenever the series has at least w bars, and is null
\* or left out only when it has fewer than w bars, whatever the other windows
\* (a series of 20 to 49 bars yields SMA 5, 10 and 20).
C21_WindowsGatedIndependently ==
    Called("calculate_moving_averages") =>
        \A w \in Windows :
            IF BarsGiven >= w
            THEN IsNumber(Sma(w)) /\ ~IsNaN(Sma(w))
            ELSE IsNone(Sma(w))

\* the fewest bars on which each indicator has a value
MinBars ==
    [c \in TaCalls |->
        CASE c = "macd" -> 26 [] c = "adx" -> 28 [] c = "bbands" -> 20
          [] OTHER -> 14]

\* the value the result carries for the indicator of a df.ta call
IndicatorValue(c) ==
    CASE c = "rsi" -> DictGet(call.result, "rsi", PyNone)
      [] c = "macd" -> DictGet(call.result, "macd", PyNone)
      [] c = "stoch" -> DictGet(call.result, "stochasticsk", PyNone)
      [] c = "adx" -> DictGet(call.result, "adx", PyNone)
      [] c = "atr" -> DictGet(call.result, "atr", PyNone)
      [] c = "willr" -> DictGet(call.result, "williamsr", PyNone)
      [] OTHER -> DictGet(DictGet(call.result, "bollingerBands", EmptyDict),
                          "middleBand", PyNone)

IsNull(v) == IsNone(v) \/ IsNaN(v)

\* C22: in calculate_technical_indicators each indicator is nullable on its
\* own: an indicator that cannot be computed on the bars given, because the
\* series is shorter than its window or its computation raises, is null, every
\* other indicator and price_action are still returned, and nothing is raised.
C22_IndicatorsNullableIndependently ==
    (Called("calculate_technical_indicators") /\ BarsGiven >= 1) =>
        /\ IsDict(call.result)
        /\ IsNumber(DictGet(DictGet(call.result, "price_action", EmptyDict),
                            "current_close", PyNone))
        /\ \A c \in TaCalls :
              IsNull(IndicatorValue(c))
                  <=> (BarsGiven < MinBars[c] \/ c \in call.args[2])

\* the history handed to calculate_support_resistance_levels, its last close
\* and the two lists of the result, in hundredths
LevelsDf == call.args[1]

LastClose == Hundredths(Close(LevelsDf.kids[LevelsDf.n]))

Supports ==
    [k \in 1..Len(DictGet(call.result, "supports", EmptyList).kids) |->
        Hundredths(DictGet(call.result, "supports", EmptyList).kids[k])]

Resistances ==
    [k \in 1..Len(DictGet(call.result, "resistances", EmptyList).kids) |->
        Hundredths(DictGet(call.result, "resistances", EmptyList).kids[k])]

\* the rows that have 3 bars on either side
Inner == 4..(LevelsDf.n - 3)

\* the rows whose low is a support candidate
LocalLows ==
    {i \in Inner :
        /\ \A j \in 1..3 : /\ LowAt(LevelsDf, i) <= LowAt(LevelsDf, i - j)
                           /\ LowAt(LevelsDf, i) <= LowAt(LevelsDf, i + j)
        /\ LowAt(LevelsDf, i) < LastClose}

\* the rows whose high is a resistance candidate
LocalHighs ==
    {i \in Inner :
        /\ \A j \in 1..3 : /\ HighAt(LevelsDf, i) >= HighAt(LevelsDf, i - j)
                           /\ HighAt(LevelsDf, i) >= HighAt(LevelsDf, i + j)
        /\ HighAt(LevelsDf, i) > LastClose}

\* the list holds the values of the rows kept, each as often as it occurs
SameValues(list, kept, value(_)) ==
    \A v \in Range(list) \cup {value(i) : i \in kept} :
        Cardinality({k \in 1..Len(list) : list[k] = v})
            = Cardinality({i \in kept : value(i) = v})

LowOf(i) == LowAt(LevelsDf, i)

HighOf(i) == HighAt(LevelsDf, i)

\* C23: on 20 or more bars calculate_support_resistance_levels returns at most
\* 3 supports and 3 resistances.  The supports are the lows of the local lows
\* (a low <= the low of each of the 3 bars on either side) strictly below the
\* last close, the nearest to the last close being kept, in descending order;
\* the resistances are the local highs strictly above it, the nearest kept, in
\* ascending order.  The first and last 3 bars are never candidates; fewer
\* than 20 bars gives two empty lists.
C23_NearestLevels ==
    Called("calculate_support_resistance_levels") =>
        IF IsNone(LevelsDf) \/ LevelsDf.n < 20
        THEN call.result = Found(EmptyList, EmptyList)
        ELSE
          /\ Len(Supports) = Min(3, Cardinality(LocalLows))
          /\ Len(Resistances) = Min(3, Cardinality(LocalHighs))
          /\ \A k \in 1..(Len(Supports) - 1) : Supports[k] >= Supports[k + 1]
          /\ \A k \in 1..(Len(Resistances) - 1) :
                Resistances[k] <= Resistances[k + 1]
          /\ \E kept \in SUBSET LocalLows :
                /\ SameValues(Supports, kept, LowOf)
                /\ \A i \in kept, o \in LocalLows \ kept : LowOf(i) >= LowOf(o)
          /\ \E kept \in SUBSET LocalHighs :
                /\ SameValues(Resistances, kept, HighOf)
                /\ \A i \in kept, o \in LocalHighs \ kept : HighOf(i) <= HighOf(o)

\* dips in rows 4, 8, 12 and 17 of 20 bars closing at 103.00: the farthest of
\* the four supports is dropped; the spike of row 3 is no candidate
C23_Witness ==
    /\ Called("calculate_support_resistance_levels")
    /\ LevelsDf = ShapedFrame(20, <<"spike", "dip", "dip", "dip", "dip", "">>, 10300)
    /\ Supports = <<9450, 9420, 9400>>
    /\ Resistances = <<>>

\* no fetch of the request has usable data: each raises or comes back empty
NothingUsable == \A t \in Fetches : outcome[t] \in {"raise", "none", "empty"}

\* C24: when no provider returns usable data for any category of the symbol,
\* the request does not end in a normal response: the caller is told that the
\* symbol was not found.
C24_NotFoundWhenNothingUsable ==
    (NothingUsable /\ pc = "done") => ~IsDict(response)

\* the points of the criteria in the result of calculate_piotroski_f_score
Points ==
    [k \in 1..Len(DictGet(call.result, "criteria", EmptyList).kids) |->
        DictGet(call.result, "criteria", EmptyList).kids[k]]

\* the figures each criterion needs: <<statement, period, field>>, the
\* statements being the arguments 1 (income), 2 (balance), 3 (cash flow)
Needs ==
    << {<<1, 1, "netIncome">>},
       {<<3, 1, "operatingCashFlow">>},
       {<<1, 1, "netIncome">>, <<2, 1, "totalAssets">>,
        <<1, 2, "netIncome">>, <<2, 2, "totalAssets">>},
       {<<3, 1, "operatingCashFlow">>, <<1, 1, "netIncome">>},
       {<<2, 1, "longTermDebt">>, <<2, 1, "totalAssets">>,
        <<2, 2, "longTermDebt">>, <<2, 2, "totalAssets">>},
       {<<2, 1, "currentAssets">>, <<2, 1, "currentLiabilities">>,
        <<2, 2, "currentAssets">>, <<2, 2, "currentLiabilities">>},
       {<<2, 1, "sharesOutstanding">>, <<2, 2, "sharesOutstanding">>},
       {<<1, 1, "grossProfit">>, <<1, 1, "revenue">>,
        <<1, 2, "grossProfit">>, <<1, 2, "revenue">>},
       {<<1, 1, "revenue">>, <<2, 1, "totalAssets">>,
        <<1, 2, "revenue">>, <<2, 2, "totalAssets">>} >>

\* the criteria that compare one year with the year before
YearOverYear == {k \in 1..9 : \E need \in Needs[k] : need[2] = 2}

\* the figure is in the statements handed to the call
Given(need) ==
    /\ Len(call.args[need[1]].kids) >= need[2]
    /\ ~IsNone(DictGet(call.args[need[1]].kids[need[2]], need[3], PyNone))

\* C25: the Piotroski score is an integer in [0,9], each of the 9 criteria
\* contributing exactly 0 or 1; a criterion whose inputs are missing
\* contributes 0; with only 1 period every criterion that compares year over
\* year contributes 0, and no error is raised.
C25_PiotroskiScore ==
    Called("calculate_piotroski_f_score") =>
        /\ IsDict(call.result)
        /\ Len(Points) = 9
        /\ \A k \in 1..9 : Points[k] \in {PyInt(0), PyInt(1)}
        /\ DictGet(call.result, "score", PyNone)
                = PyInt(Cardinality({k \in 1..9 : Points[k] = PyInt(1)}))
        /\ \A k \in 1..9 :
                (\E need \in Needs[k] : ~Given(need)) => Points[k] = PyInt(0)
        /\ (\A i \in 1..3 : Len(call.args[i].kids) <= 1)
                => \A k \in YearOverYear : Points[k] = PyInt(0)

\* statements of a single period score the 3 criteria of the year itself
C25_Witness ==
    /\ Called("calculate_piotroski_f_score")
    /\ \A i \in 1..3 : Len(call.args[i].kids) = 1
    /\ DictGet(call.result, "score", PyNone) = PyInt(3)

\* the handler has passed the join of the batch
PastJoin == pc \notin {"start", "gather"}

\* C26: after the join of the batch nothing of the request runs concurrently:
\* each lazy fetch and each indicator computation awaited after the join is
\* the only operation in flight, and no call of the batch is left queued.
C26_OneInFlightAfterJoin ==
    PastJoin => Cardinality(running) <= 1 /\ queue = <<>>

\* the second lazy fetch of a request is in flight, the first has answered
C26_Witness ==
    /\ pc = "await_yf_quote"
    /\ running = {"yf_quote"}
    /\ \E i \in 1..Len(fetch_log) :
            fetch_log[i].fetch = "yf_profile" /\ fetch_log[i].phase = "lazy"

\* C27: provided every fetch call completes or fails in the end, every request
\* passes the join and returns a response, also on the paths that await lazy
\* secondary fetches after the join.
C27_EventuallyResponds == <>(PastJoin /\ pc = "done" /\ IsDict(response))

\* a request whose primary tasks all raised has awaited lazy fetches and has
\* returned
C27_Witness ==
    /\ pc = "done"
    /\ \A t \in PrimaryTasks : raw_data[t] = "raise"
    /\ \E i \in 1..Len(fetch_log) : fetch_log[i].phase = "lazy"


(***************************************************************************)
(* The merge of the key metrics of the two providers.                      *)
(***************************************************************************)
\* what a provider contributes to the merge: the first element of a list of
\* periods, a dictionary itself, nothing when the fetch failed or was empty
Contribution(key) ==
    LET val == RawGet(raw_data, key)
    IN IF IsList(val) /\ Len(val.kids) > 0 THEN val.kids[1]
       ELSE IF IsDict(val) THEN val
       ELSE EmptyDict

KeysOf(d) == {d.kids[i].s : i \in 1..Len(d.kids)}

\* d[k], for a key d has
ValueAt(d, k) == d.kids[CHOOSE i \in 1..Len(d.kids) : d.kids[i].s = k].kids[1]

MergedMetrics == DictGet(final_data, "key_metrics", PyNone)

\* C28: once key_metrics is assigned it holds every key of either provider;
\* a key the primary provider has carries the primary's value, also when
\* that value is null and Yahoo's is not; a key only Yahoo has keeps
\* Yahoo's value; of a list of periods only the first takes part.
C28_MergedKeyMetrics ==
    HasKey(final_data, "key_metrics") =>
        LET fmp_m == Contribution("fmp_key_metrics")
            yf_m == Contribution("yf_key_fundamentals")
        IN /\ IsDict(MergedMetrics)
           /\ KeysOf(MergedMetrics) = KeysOf(fmp_m) \cup KeysOf(yf_m)
           /\ \A k \in KeysOf(fmp_m) :
                 ValueAt(MergedMetrics, k) = ValueAt(fmp_m, k)
           /\ \A k \in KeysOf(yf_m) \ KeysOf(fmp_m) :
                 ValueAt(MergedMetrics, k) = ValueAt(yf_m, k)

\* both providers answered: the primary's null market capitalisation hides
\* Yahoo's figure, Yahoo's earnings per share are kept, and the second
\* period of the primary's list takes no part
C28_Witness ==
    /\ pc = "done"
    /\ HasKey(final_data, "key_metrics")
    /\ IsList(RawGet(raw_data, "fmp_key_metrics"))
    /\ Len(RawGet(raw_data, "fmp_key_metrics").kids) > 1
    /\ ValueAt(Contribution("yf_key_fundamentals"), "marketCap") = PyInt(900)
    /\ ValueAt(MergedMetrics, "marketCap") = PyNone
    /\ ValueAt(MergedMetrics, "epsTTM") = PyFloat(250)
    /\ ValueAt(MergedMetrics, "peRatioTTM") = PyFloat(1200)


(***************************************************************************)
(* The live price of an index.                                             *)
(***************************************************************************)
AskedTicker == call.args[1]

\* the lookup itself raises: the ticker cannot be built or one of its two
\* sources cannot be read
LookupRaises ==
    \/ IsExc(AskedTicker)
    \/ IsExc(DictGet(AskedTicker, "fast_info", PyNone))
    \/ IsExc(DictGet(AskedTicker, "info", PyNone))

\* a source yields both figures
YieldsBoth(source, price_key, close_key) ==
    /\ IsDict(source)
    /\ ~IsNone(DictGet(source, price_key, PyNone))
    /\ ~IsNone(DictGet(source, close_key, PyNone))

NeitherYieldsBoth ==
    /\ ~LookupRaises
    /\ ~YieldsBoth(DictGet(AskedTicker, "fast_info", PyNone),
                   "last_price", "previous_close")
    /\ ~YieldsBoth(DictGet(AskedTicker, "info", PyNone),
                   "regularMarketPrice", "previousClose")

\* C29: get_index_live_price answers 404 'Live price not available.' when
\* neither fast_info nor info yields both a price and a previous close, and
\* answers 500 'Failed to fetch live price.' only when the lookup raises.
C29_NotFoundWhenNoPrice ==
    Called("get_index_live_price") =>
        /\ NeitherYieldsBoth
              => call.result = Http(404, "Live price not available.")
        /\ call.result = Http(500, "Failed to fetch live price.")
              => LookupRaises


(***************************************************************************)
(* The analyst recommendations.                                            *)
(***************************************************************************)
AskedTable == call.args[1]

NoTable == IsExc(AskedTable) \/ IsNone(AskedTable) \/ AskedTable.kids = <<>>

LatestRow == AskedTable.kids[Len(AskedTable.kids)].kids

\* the count in the column whose label is exactly `col`, 0 without one
ColumnNamed(col) ==
    IF \E i \in 1..Len(LatestRow) : ColOf(LatestRow[i]) = col
    THEN CountIn(LatestRow[CHOOSE i \in 1..Len(LatestRow) : ColOf(LatestRow[i]) = col])
    ELSE PyInt(0)

\* every count of the latest row converts to an integer
AllCounts == \A col \in RatingColumns : ~IsNonFinite(ColumnNamed(col))

\* C30: get_analyst_recommendations maps each normalized field to the
\* provider column of the same name, whatever the order of the columns; a
\* missing column gives 0, a missing or empty table the empty list.
C30_FieldsByColumnName ==
    Called("get_analyst_recommendations") =>
        /\ NoTable => call.result = EmptyList
        /\ (~NoTable /\ AllCounts) =>
              call.result = PyList(<<PyDict(<<
                  KV("ratingStrongBuy", ColumnNamed(strongBuy)),
                  KV("ratingBuy", ColumnNamed(buy)),
                  KV("ratingHold", ColumnNamed(hold)),
                  KV("ratingSell", ColumnNamed(sell)),
                  KV("ratingStrongSell", ColumnNamed(strongSell))>>)>>)
====
